---- MODULE Spec2Model ----
(***************************************************************************)
(* A model of JeremyLoy/config: binding of flat KEY=VALUE sources (files   *)
(* and the process environment) into a nested struct.                      *)
(*                                                                         *)
(* Go strings are modelled as sequences of one-character strings, so that  *)
(* splitting, lower-casing, trimming and number parsing are computed       *)
(* character by character as the library does.                             *)
(***************************************************************************)
EXTENDS Integers, Sequences, FiniteSets, TLC

(***************************************************************************)
(* Characters and the package "strings"                                    *)
(***************************************************************************)
UpperLetters == <<"A","B","C","D","E","F","G","H","I","J","K","L","M",
                  "N","O","P","Q","R","S","T","U","V","W","X","Y","Z">>

LowerLetters == <<"a","b","c","d","e","f","g","h","i","j","k","l","m",
                  "n","o","p","q","r","s","t","u","v","w","x","y","z">>

Digits == <<"0","1","2","3","4","5","6","7","8","9">>

IsUpper(c) == \E i \in DOMAIN UpperLetters : UpperLetters[i] = c

IsDigit(c) == \E i \in DOMAIN Digits : Digits[i] = c

IsSpace(c) == c \in {" ", "\t", "\n", "\r"}

ToLowerChar(c) ==
    IF IsUpper(c)
    THEN LowerLetters[CHOOSE i \in DOMAIN UpperLetters : UpperLetters[i] = c]
    ELSE c

\* strings.ToLower
ToLower(s) == [i \in 1..Len(s) |-> ToLowerChar(s[i])]

\* strings.Contains(s, "=") generalised to one separator character
Contains(s, c) == \E i \in 1..Len(s) : s[i] = c

\* index of the first occurrence of the character c in s (0 when absent)
IndexOf(s, c) ==
    IF Contains(s, c)
    THEN CHOOSE i \in 1..Len(s) : s[i] = c /\ \A j \in 1..(i - 1) : s[j] # c
    ELSE 0

\* a split at the last separator instead of the first
SplitAtLast(s, c) ==
    IF Contains(s, c)
    THEN LET last == CHOOSE i \in 1..Len(s) :
                        s[i] = c /\ \A j \in (i + 1)..Len(s) : s[j] # c
         IN  <<SubSeq(s, 1, last - 1), SubSeq(s, last + 1, Len(s))>>
    ELSE <<s>>

\* strings.SplitN(s, sep, 2) for a one-character sep: at most two pieces
SplitN2(s, c) ==
    IF Contains(s, c)
    THEN <<SubSeq(s, 1, IndexOf(s, c) - 1), SubSeq(s, IndexOf(s, c) + 1, Len(s))>>
    ELSE <<s>>

\* strings.HasPrefix at position i: does delim occur in s starting at i
OccursAt(s, delim, i) ==
    /\ i + Len(delim) - 1 <= Len(s)
    /\ \A j \in 1..Len(delim) : s[i + j - 1] = delim[j]

RECURSIVE SplitFrom(_, _, _, _)
\* strings.Split(s, delim) for a non-empty delim: scan from position i,
\* cur is the piece accumulated since the last separator
SplitFrom(s, delim, i, cur) ==
    IF i > Len(s) THEN <<cur>>
    ELSE IF OccursAt(s, delim, i)
         THEN <<cur>> \o SplitFrom(s, delim, i + Len(delim), <<>>)
         ELSE SplitFrom(s, delim, i + 1, Append(cur, s[i]))

Split(s, delim) == SplitFrom(s, delim, 1, <<>>)

RECURSIVE TrimLeft(_)
TrimLeft(s) == IF s # <<>> /\ IsSpace(s[1]) THEN TrimLeft(Tail(s)) ELSE s

RECURSIVE TrimRight(_)
TrimRight(s) ==
    IF s # <<>> /\ IsSpace(s[Len(s)]) THEN TrimRight(SubSeq(s, 1, Len(s) - 1)) ELSE s

\* strings.TrimSpace
TrimSpace(s) == TrimRight(TrimLeft(s))

(***************************************************************************)
(* The package "strconv" and time.ParseDuration, as far as the binder      *)
(* uses them.  Results are records [val, ok]; ok = FALSE is err != nil.    *)
(* Numerals of the input pools have at most nine digits, so that 32 and 64 *)
(* bit targets never overflow on them.                                     *)
(***************************************************************************)
DigitVal(c) == (CHOOSE i \in DOMAIN Digits : Digits[i] = c) - 1

RECURSIVE ParseDigits(_)
ParseDigits(s) ==
    IF s = <<>> THEN 0
    ELSE ParseDigits(SubSeq(s, 1, Len(s) - 1)) * 10 + DigitVal(s[Len(s)])

AllDigits(s) == s # <<>> /\ \A i \in 1..Len(s) : IsDigit(s[i])

\* largest value of an unsigned integer of the given width; widths of 32 and
\* 64 bits are wider than any numeral of the pools
MaxUint(bits) == IF bits = 8 THEN 255 ELSE IF bits = 16 THEN 65535 ELSE 999999999

\* cutoff of strconv.ParseInt: 1 << (bitSize - 1)
Cutoff(bits) == IF bits = 8 THEN 128 ELSE IF bits = 16 THEN 32768 ELSE 1000000000

\* strconv.ParseUint(s, 10, bits): no sign is accepted; a syntax error yields
\* 0 and a range error yields the largest value of the width
ParseUint(s, bits) ==
    IF ~AllDigits(s) THEN [val |-> 0, ok |-> FALSE]
    ELSE IF ParseDigits(s) > MaxUint(bits) THEN [val |-> MaxUint(bits), ok |-> FALSE]
    ELSE [val |-> ParseDigits(s), ok |-> TRUE]

\* strconv.ParseInt(s, 10, bits): optional sign, then ParseUint; a syntax
\* error yields 0, a range error the nearest bound of the width
ParseInt(s, bits) ==
    IF s = <<>> THEN [val |-> 0, ok |-> FALSE]
    ELSE LET neg  == s[1] = "-"
             rest == IF s[1] \in {"+", "-"} THEN Tail(s) ELSE s
         IN  IF ~AllDigits(rest) THEN [val |-> 0, ok |-> FALSE]
             ELSE LET un == ParseDigits(rest)
                  IN  IF ~neg /\ un >= Cutoff(bits)
                      THEN [val |-> Cutoff(bits) - 1, ok |-> FALSE]
                      ELSE IF neg /\ un > Cutoff(bits)
                      THEN [val |-> 0 - Cutoff(bits), ok |-> FALSE]
                      ELSE [val |-> IF neg THEN 0 - un ELSE un, ok |-> TRUE]

\* strconv.ParseBool
ParseBool(s) ==
    IF s \in {<<"1">>, <<"t">>, <<"T">>, <<"T","R","U","E">>,
              <<"t","r","u","e">>, <<"T","r","u","e">>}
    THEN [val |-> TRUE, ok |-> TRUE]
    ELSE IF s \in {<<"0">>, <<"f">>, <<"F">>, <<"F","A","L","S","E">>,
                   <<"f","a","l","s","e">>, <<"F","a","l","s","e">>}
    THEN [val |-> FALSE, ok |-> TRUE]
    ELSE [val |-> FALSE, ok |-> FALSE]

\* number of decimal places a float value is held with: 1.5 is held as 150
FracDigits == 2

RECURSIVE Pow10(_)
Pow10(n) == IF n = 0 THEN 1 ELSE 10 * Pow10(n - 1)

\* strconv.ParseFloat on plain decimal notation [sign] digits [. digits];
\* a syntax error yields 0.  Exponents, hex floats, inf and nan are not in
\* the input pools.
ParseFloat(s) ==
    IF s = <<>> THEN [val |-> 0, ok |-> FALSE]
    ELSE LET neg  == s[1] = "-"
             rest == IF s[1] \in {"+", "-"} THEN Tail(s) ELSE s
             dot  == IndexOf(rest, ".")
             ip   == IF dot = 0 THEN rest ELSE SubSeq(rest, 1, dot - 1)
             fp   == IF dot = 0 THEN <<>> ELSE SubSeq(rest, dot + 1, Len(rest))
             wf   == /\ ip \o fp # <<>>
                     /\ \A i \in 1..Len(ip) : IsDigit(ip[i])
                     /\ \A i \in 1..Len(fp) : IsDigit(fp[i])
                     /\ Len(fp) <= FracDigits
         IN  IF ~wf THEN [val |-> 0, ok |-> FALSE]
             ELSE LET mag == ParseDigits(ip) * Pow10(FracDigits)
                             + ParseDigits(fp) * Pow10(FracDigits - Len(fp))
                  IN  [val |-> IF neg THEN 0 - mag ELSE mag, ok |-> TRUE]

\* seconds in one unit of time.ParseDuration; a Duration is held in seconds
UnitSeconds(u) == IF u = "h" THEN 3600 ELSE IF u = "m" THEN 60 ELSE 1

\* time.ParseDuration on "0" and on one segment digits+unit with unit h, m
\* or s; anything else of the input pools (a bare number, a word) is an error
ParseDuration(s) ==
    IF s = <<"0">> THEN [val |-> 0, ok |-> TRUE]
    ELSE IF /\ Len(s) >= 2
            /\ s[Len(s)] \in {"h", "m", "s"}
            /\ AllDigits(SubSeq(s, 1, Len(s) - 1))
    THEN [val |-> ParseDigits(SubSeq(s, 1, Len(s) - 1)) * UnitSeconds(s[Len(s)]),
          ok |-> TRUE]
    ELSE [val |-> 0, ok |-> FALSE]

(***************************************************************************)
(* Go values and types (package reflect)                                   *)
(*                                                                         *)
(* A type is a record with a Kind; a struct type carries its Fields, a     *)
(* slice type its Elem.  A struct value is the tuple of its field values   *)
(* in declaration order; a slice value is [isNil, elems] so that a nil     *)
(* slice differs from an empty one; a pointer value is [isNil].            *)
(***************************************************************************)
SignedKinds == {"int", "int8", "int16", "int32", "int64"}

UnsignedKinds == {"uint", "uint8", "uint16", "uint32", "uint64"}

FloatKinds == {"float32", "float64"}

\* reflect.Type.Bits of a numeric kind (int and uint are 64 bits wide)
Bits(kind) ==
    IF kind \in {"int8", "uint8"} THEN 8
    ELSE IF kind \in {"int16", "uint16"} THEN 16
    ELSE IF kind \in {"int32", "uint32", "float32"} THEN 32
    ELSE 64

Scalar(kind) == [Kind |-> kind, PkgPath |-> "", Name |-> kind]

Named(kind, pkg, name) == [Kind |-> kind, PkgPath |-> pkg, Name |-> name]

DurationType == Named("int64", "time", "Duration")

SliceOf(elem) == [Kind |-> "slice", PkgPath |-> "", Name |-> "", Elem |-> elem]

StructOf(fields) == [Kind |-> "struct", PkgPath |-> "", Name |-> "", Fields |-> fields]

PtrTo(elem) == [Kind |-> "ptr", PkgPath |-> "", Name |-> "", Elem |-> elem]

\* a map, channel or func type, and the type [n]elem
Opaque(kind) == [Kind |-> kind, PkgPath |-> "", Name |-> ""]

ArrayOf(n, elem) == [Kind |-> "array", PkgPath |-> "", Name |-> "", Len |-> n, Elem |-> elem]

\* a struct field without a `config` tag, and one with it
Field(name, type) == [Name |-> name, HasTag |-> FALSE, Tag |-> <<>>, Type |-> type]

Tagged(name, tag, type) == [Name |-> name, HasTag |-> TRUE, Tag |-> tag, Type |-> type]

NilSlice == [isNil |-> TRUE, elems |-> <<>>]

NilPtr == [isNil |-> TRUE]

\* append(s, x): the result is never nil
GoAppend(s, x) == [isNil |-> FALSE, elems |-> Append(s.elems, x)]

RECURSIVE ZeroValue(_)
\* the zero value of a type
ZeroValue(t) ==
    IF t.Kind = "struct" THEN [i \in 1..Len(t.Fields) |-> ZeroValue(t.Fields[i].Type)]
    ELSE IF t.Kind = "slice" THEN NilSlice
    ELSE IF t.Kind \in {"ptr", "map", "chan", "func", "interface"} THEN NilPtr
    ELSE IF t.Kind = "array" THEN [i \in 1..t.Len |-> ZeroValue(t.Elem)]
    ELSE IF t.Kind = "bool" THEN FALSE
    ELSE IF t.Kind = "string" THEN <<>>
    ELSE 0

(***************************************************************************)
(* The binder                                                              *)
(***************************************************************************)
\* a delimiter of one underscore
structDelimSingle == <<"_">>

structDelim == <<"_", "_">>

sliceDelim == <<" ">>

\* c.configMap[key]: the empty string when the key is absent
Lookup(cm, key) == IF key \in DOMAIN cm THEN cm[key] ELSE <<>>

RECURSIVE Itoa(_)
\* fmt's %v of a non-negative int
Itoa(n) == IF n < 10 THEN <<Digits[n + 1]>> ELSE Itoa(n \div 10) \o <<Digits[(n % 10) + 1]>>

\* a convertAndSetValue that converts the empty string like any other
convertAndSetValueNoEmptyCheck(t, cur, s) ==
    IF t.Kind = "string" THEN [val |-> s, ok |-> TRUE]
    ELSE IF t.Kind \in SignedKinds
    THEN LET r == IF t.PkgPath = "time" /\ t.Name = "Duration"
                  THEN ParseDuration(s)
                  ELSE ParseInt(s, Bits(t.Kind))
         IN  [val |-> IF r.ok THEN r.val ELSE cur, ok |-> r.ok]
    ELSE IF t.Kind \in UnsignedKinds
    THEN LET r == ParseUint(s, Bits(t.Kind)) IN [val |-> r.val, ok |-> r.ok]
    ELSE IF t.Kind = "bool"
    THEN LET r == ParseBool(s) IN [val |-> r.val, ok |-> r.ok]
    ELSE IF t.Kind \in FloatKinds
    THEN LET r == ParseFloat(s) IN [val |-> r.val, ok |-> r.ok]
    ELSE [val |-> cur, ok |-> FALSE]

\* a convertAndSetValue that reports no failure for a kind it does not handle
convertAndSetValueSkipUnhandled(t, cur, s) ==
    IF s = <<>> THEN [val |-> cur, ok |-> TRUE]
    ELSE IF t.Kind = "string" THEN [val |-> s, ok |-> TRUE]
    ELSE IF t.Kind \in SignedKinds
    THEN LET r == IF t.PkgPath = "time" /\ t.Name = "Duration"
                  THEN ParseDuration(s)
                  ELSE ParseInt(s, Bits(t.Kind))
         IN  [val |-> IF r.ok THEN r.val ELSE cur, ok |-> r.ok]
    ELSE IF t.Kind \in UnsignedKinds
    THEN LET r == ParseUint(s, Bits(t.Kind)) IN [val |-> r.val, ok |-> r.ok]
    ELSE IF t.Kind = "bool"
    THEN LET r == ParseBool(s) IN [val |-> r.val, ok |-> r.ok]
    ELSE IF t.Kind \in FloatKinds
    THEN LET r == ParseFloat(s) IN [val |-> r.val, ok |-> r.ok]
    ELSE [val |-> cur, ok |-> TRUE]

\* a convertAndSetValue that looks at the kind before it looks at s
convertAndSetValueKindFirst(t, cur, s) ==
    IF t.Kind \notin SignedKinds \cup UnsignedKinds \cup FloatKinds \cup {"string", "bool"}
    THEN [val |-> cur, ok |-> FALSE]
    ELSE convertAndSetValueSkipUnhandled(t, cur, s)

\* convertAndSetValue(settable, s) for a settable of type t holding cur:
\* val is what the settable holds afterwards, ok is the returned bool
convertAndSetValue(t, cur, s) ==
    IF s = <<>> THEN [val |-> cur, ok |-> TRUE]
    ELSE IF t.Kind = "string" THEN [val |-> s, ok |-> TRUE]
    ELSE IF t.Kind \in SignedKinds
    THEN LET r == IF t.PkgPath = "time" /\ t.Name = "Duration"
                  THEN ParseDuration(s)
                  ELSE ParseInt(s, Bits(t.Kind))
         IN  [val |-> IF r.ok THEN r.val ELSE cur, ok |-> r.ok]
    ELSE IF t.Kind \in UnsignedKinds
    THEN LET r == ParseUint(s, Bits(t.Kind)) IN [val |-> r.val, ok |-> r.ok]
    ELSE IF t.Kind = "bool"
    THEN LET r == ParseBool(s) IN [val |-> r.val, ok |-> r.ok]
    ELSE IF t.Kind \in FloatKinds
    THEN LET r == ParseFloat(s) IN [val |-> r.val, ok |-> r.ok]
    ELSE [val |-> cur, ok |-> FALSE]

RECURSIVE FilterTokensKeepEmpty(_)
\* a loop that trims every piece and keeps the empty ones too
FilterTokensKeepEmpty(split) ==
    IF split = <<>> THEN <<>>
    ELSE <<TrimSpace(split[1])>> \o FilterTokensKeepEmpty(Tail(split))

RECURSIVE FilterTokens(_)
\* the loop of stringToSlice: trim every piece, keep the non-empty ones
FilterTokens(split) ==
    IF split = <<>> THEN <<>>
    ELSE LET v == TrimSpace(split[1])
         IN  (IF v # <<>> THEN <<v>> ELSE <<>>) \o FilterTokens(Tail(split))

\* stringToSlice(s, delim) for a non-empty delim (an empty one panics)
stringToSlice(s, delim) ==
    IF TrimSpace(s) = <<>> THEN NilSlice
    ELSE [isNil |-> FALSE, elems |-> FilterTokens(Split(TrimSpace(s), delim))]

\* stringToSlice(s, delim) for any delim: the panic of the empty one included
stringToSliceOrPanic(s, delim) ==
    IF delim = <<>> THEN [panicked |-> TRUE, val |-> NilSlice]
    ELSE [panicked |-> FALSE, val |-> stringToSlice(s, delim)]

RECURSIVE SliceLoopStop(_, _, _, _)
SliceLoopStop(elemType, sv, values, i) ==
    IF i > Len(values) THEN [val |-> sv, failed |-> <<>>]
    ELSE LET r == convertAndSetValue(elemType, ZeroValue(elemType), values[i])
         IN  IF ~r.ok THEN [val |-> sv, failed |-> <<i - 1>>]
             ELSE SliceLoopStop(elemType, GoAppend(sv, r.val), values, i + 1)

\* a convertAndSetSlice that gives up at the first value that does not convert
convertAndSetSliceStopAtFirst(elemType, sv, values) == SliceLoopStop(elemType, sv, values, 1)

RECURSIVE SliceLoopPlaceholder(_, _, _, _, _)
\* a loop that appends the zero value in the place of a value that did not convert
SliceLoopPlaceholder(elemType, sv, values, i, failed) ==
    IF i > Len(values) THEN [val |-> sv, failed |-> failed]
    ELSE LET r == convertAndSetValue(elemType, ZeroValue(elemType), values[i])
         IN  IF ~r.ok
             THEN SliceLoopPlaceholder(elemType, GoAppend(sv, ZeroValue(elemType)), values,
                                       i + 1, Append(failed, i - 1))
             ELSE SliceLoopPlaceholder(elemType, GoAppend(sv, r.val), values, i + 1, failed)

RECURSIVE SliceLoop(_, _, _, _, _)
\* the loop of convertAndSetSlice from the (1-based) position i on: sv is the
\* slice so far, failed the 0-based indices of the values that did not convert
SliceLoop(elemType, sv, values, i, failed) ==
    IF i > Len(values) THEN [val |-> sv, failed |-> failed]
    ELSE LET r == convertAndSetValue(elemType, ZeroValue(elemType), values[i])
         IN  IF ~r.ok
             THEN SliceLoop(elemType, sv, values, i + 1, Append(failed, i - 1))
             ELSE SliceLoop(elemType, GoAppend(sv, r.val), values, i + 1, failed)

\* a convertAndSetSlice that builds the slice anew instead of appending to it
convertAndSetSliceReplace(elemType, sv, values) ==
    SliceLoop(elemType, [isNil |-> FALSE, elems |-> <<>>], values, 1, <<>>)

\* convertAndSetSlice(slicePtr, values)
convertAndSetSlice(elemType, sv, values) == SliceLoop(elemType, sv, values, 1, <<>>)

\* a getKey that leaves the case of the name as declared
getKeyNoFold(f, prefix) ==
    LET name == IF f.HasTag /\ TrimSpace(f.Tag) # <<>> THEN TrimSpace(f.Tag) ELSE f.Name
    IN  prefix \o name

\* a getKey that drops the prefix
getKeyNoPrefix(f, prefix) ==
    LET name == IF f.HasTag /\ TrimSpace(f.Tag) # <<>> THEN TrimSpace(f.Tag) ELSE f.Name
    IN  ToLower(name)

\* a getKey that tests the trimmed tag but uses the tag as written
getKeyNoTrim(f, prefix) ==
    LET name == IF f.HasTag /\ TrimSpace(f.Tag) # <<>> THEN f.Tag ELSE f.Name
    IN  ToLower(prefix \o name)

\* getKey(t, prefix)
getKey(f, prefix) ==
    LET name == IF f.HasTag /\ TrimSpace(f.Tag) # <<>> THEN TrimSpace(f.Tag) ELSE f.Name
    IN  ToLower(prefix \o name)

\* fmt.Sprintf("%v[%v]", key, index)
SliceFailure(key, index) == key \o <<"[">> \o Itoa(index) \o <<"]">>

RECURSIVE AppendSliceFailuresDescending(_, _, _)
\* the failures of one slice recorded from the last index back to the first
AppendSliceFailuresDescending(ff, key, indices) ==
    IF indices = <<>> THEN ff
    ELSE GoAppend(AppendSliceFailuresDescending(ff, key, Tail(indices)),
                  SliceFailure(key, indices[1]))

RECURSIVE AppendSliceFailures(_, _, _)
AppendSliceFailures(ff, key, indices) ==
    IF indices = <<>> THEN ff
    ELSE AppendSliceFailures(GoAppend(ff, SliceFailure(key, indices[1])), key, Tail(indices))

RECURSIVE PopulateFromDeclaredPrefix(_, _, _, _, _, _)
\* a loop that hands the declared name of a struct field down as the prefix
PopulateFromDeclaredPrefix(fields, v, prefix, i, cm, ff) ==
    IF i > Len(fields) THEN [val |-> v, failed |-> ff]
    ELSE LET ft    == fields[i]
             key   == getKey(ft, prefix)
             value == Lookup(cm, key)
         IN  IF ft.Type.Kind = "struct"
             THEN LET r == PopulateFromDeclaredPrefix(ft.Type.Fields, v[i],
                               ToLower(prefix \o ft.Name) \o structDelim, 1, cm, ff)
                  IN  PopulateFromDeclaredPrefix(fields, [v EXCEPT ![i] = r.val], prefix,
                                                 i + 1, cm, r.failed)
             ELSE IF ft.Type.Kind = "slice"
             THEN LET r == convertAndSetSlice(ft.Type.Elem, v[i],
                                              stringToSlice(value, sliceDelim).elems)
                  IN  PopulateFromDeclaredPrefix(fields, [v EXCEPT ![i] = r.val], prefix,
                                                 i + 1, cm,
                                                 AppendSliceFailures(ff, key, r.failed))
             ELSE LET r == convertAndSetValue(ft.Type, v[i], value)
                  IN  PopulateFromDeclaredPrefix(fields, [v EXCEPT ![i] = r.val], prefix,
                                                 i + 1, cm,
                                                 IF r.ok THEN ff ELSE GoAppend(ff, key))

RECURSIVE PopulateFrom(_, _, _, _, _, _)
\* the loop of populateStructRecursively from field i on: v is the struct
\* value, cm the builder's configMap and ff its failedFields
PopulateFrom(fields, v, prefix, i, cm, ff) ==
    IF i > Len(fields) THEN [val |-> v, failed |-> ff]
    ELSE LET ft    == fields[i]
             key   == getKey(ft, prefix)
             value == Lookup(cm, key)
         IN  IF ft.Type.Kind = "struct"
             THEN LET r == PopulateFrom(ft.Type.Fields, v[i], key \o structDelim, 1, cm, ff)
                  IN  PopulateFrom(fields, [v EXCEPT ![i] = r.val], prefix, i + 1, cm, r.failed)
             ELSE IF ft.Type.Kind = "slice"
             THEN LET r == convertAndSetSlice(ft.Type.Elem, v[i],
                                              stringToSlice(value, sliceDelim).elems)
                  IN  PopulateFrom(fields, [v EXCEPT ![i] = r.val], prefix, i + 1, cm,
                                   AppendSliceFailures(ff, key, r.failed))
             ELSE LET r == convertAndSetValue(ft.Type, v[i], value)
                  IN  PopulateFrom(fields, [v EXCEPT ![i] = r.val], prefix, i + 1, cm,
                                   IF r.ok THEN ff ELSE GoAppend(ff, key))

\* populateStructRecursively(structPtr, prefix)
populateStructRecursively(t, v, prefix, cm, ff) == PopulateFrom(t.Fields, v, prefix, 1, cm, ff)

RECURSIVE MapLoopNoFold(_, _)
\* a loop that stores the key as it is spelled in the line
MapLoopNoFold(ss, m) ==
    IF ss = <<>> THEN m
    ELSE IF ~Contains(ss[1], "=") THEN MapLoopNoFold(Tail(ss), m)
    ELSE LET split == SplitN2(ss[1], "=")
             key   == split[1]
             value == split[2]
         IN  IF key # <<>> /\ value # <<>>
             THEN MapLoopNoFold(Tail(ss), [k \in DOMAIN m \cup {key} |->
                                              IF k = key THEN value ELSE m[k]])
             ELSE MapLoopNoFold(Tail(ss), m)

RECURSIVE MapLoop(_, _)
\* the loop of stringsToMap over the lines ss, m being the map so far
MapLoop(ss, m) ==
    IF ss = <<>> THEN m
    ELSE IF ~Contains(ss[1], "=") THEN MapLoop(Tail(ss), m)
    ELSE LET split == SplitN2(ss[1], "=")
             key   == ToLower(split[1])
             value == split[2]
         IN  IF key # <<>> /\ value # <<>>
             THEN MapLoop(Tail(ss), [k \in DOMAIN m \cup {key} |->
                                        IF k = key THEN value ELSE m[k]])
             ELSE MapLoop(Tail(ss), m)

EmptyMap == [k \in {} |-> <<>>]

RECURSIVE MapLoopKeepEmpty(_, _)
MapLoopKeepEmpty(ss, m) ==
    IF ss = <<>> THEN m
    ELSE IF ~Contains(ss[1], "=") THEN MapLoopKeepEmpty(Tail(ss), m)
    ELSE LET split == SplitN2(ss[1], "=")
             key   == ToLower(split[1])
             value == split[2]
         IN  MapLoopKeepEmpty(Tail(ss), [k \in DOMAIN m \cup {key} |->
                                            IF k = key THEN value ELSE m[k]])

\* a stringsToMap that also stores the entries lacking a key or a value
stringsToMapKeepEmpty(ss) == MapLoopKeepEmpty(ss, EmptyMap)

\* stringsToMap(ss)
stringsToMap(ss) == MapLoop(ss, EmptyMap)

\* a merge in which a key the builder already holds keeps its value
mergeConfigKeepOld(cm, in) ==
    [k \in DOMAIN cm \cup DOMAIN in |-> IF k \in DOMAIN cm THEN cm[k] ELSE in[k]]

\* mergeConfig(in): every entry of in is stored over the builder's map cm
mergeConfig(cm, in) ==
    [k \in DOMAIN cm \cup DOMAIN in |-> IF k \in DOMAIN in THEN in[k] ELSE cm[k]]

(***************************************************************************)
(* Callers' struct types and the values they pass to To                    *)
(***************************************************************************)
\* type D of Test_Integration
TypeD == StructOf(<<
    Field(<<"E">>, Scalar("bool")),
    Tagged(<<"F">>, <<"f","e","R","d","i","N","a","N","D">>, Scalar("bool")),
    Field(<<"J">>, PtrTo(Scalar("int"))) >>)

\* type testConfig of Test_Integration
testConfig == StructOf(<<
    Tagged(<<"A">>, <<" "," "," "," "," ">>, Scalar("int")),
    Tagged(<<"B">>, <<"B">>, Scalar("string")),
    Field(<<"C">>, SliceOf(Scalar("int"))),
    Tagged(<<"D">>, <<"d","O","g">>, TypeD),
    Field(<<"G">>, SliceOf(Scalar("int"))),
    Field(<<"H">>, Scalar("uint8")),
    Field(<<"I">>, Scalar("string")),
    Field(<<"K">>, Scalar("string")),
    Field(<<"L">>, DurationType),
    Field(<<"M">>, Scalar("int8")) >>)

\* type QConfig of the example program
QConfig == StructOf(<<
    Field(<<"R">>, Scalar("string")),
    Field(<<"S">>, Scalar("bool")) >>)

\* type MyConfig of the example program
MyConfig == StructOf(<<
    Field(<<"A">>, Named("int", "main", "MyInt")),
    Field(<<"B">>, Scalar("int8")),
    Field(<<"C">>, Scalar("int16")),
    Field(<<"D">>, Scalar("int32")),
    Field(<<"E">>, Scalar("int64")),
    Field(<<"F">>, Scalar("string")),
    Field(<<"G">>, Scalar("bool")),
    Field(<<"H">>, Scalar("float32")),
    Field(<<"I">>, Scalar("float64")),
    Field(<<"J">>, Scalar("uint")),
    Field(<<"K">>, Scalar("uint8")),
    Field(<<"L">>, Scalar("uint16")),
    Field(<<"M">>, Scalar("uint32")),
    Field(<<"N">>, Scalar("uint64")),
    Field(<<"O">>, StructOf(<<
        Field(<<"P">>, Scalar("int")),
        Field(<<"Q">>, QConfig) >>)),
    Field(<<"T">>, SliceOf(Scalar("string"))),
    Field(<<"U">>, SliceOf(Scalar("int"))),
    Field(<<"V">>, SliceOf(Scalar("int"))) >>)

\* var s struct{} of Test_shouldPanic
emptyStruct == StructOf(<<>>)

\* a struct with a field of every kind the documentation of To lists as
\* unsupported, between two fields it supports
unsupportedConfig == StructOf(<<
    Field(<<"A">>, Scalar("string")),
    Field(<<"P">>, PtrTo(Scalar("int"))),
    Field(<<"M">>, Opaque("map")),
    Field(<<"S">>, SliceOf(QConfig)),
    Field(<<"C">>, Opaque("chan")),
    Field(<<"R">>, ArrayOf(2, Scalar("int"))),
    Field(<<"F">>, Opaque("func")),
    Field(<<"Z">>, Scalar("complex128")),
    Field(<<"B">>, Scalar("int")) >>)

\* type testconfig of TestWithPrefix, with an int field beside its strings
prefixedConfig == StructOf(<<
    Field(<<"A">>, Scalar("string")),
    Field(<<"B">>, Scalar("string")),
    Field(<<"P">>, Scalar("int")) >>)

TypeOf(name) ==
    CASE name = "testConfig" -> testConfig
      [] name = "prefixedConfig" -> prefixedConfig
      [] name = "unsupportedConfig" -> unsupportedConfig
      [] name = "emptyStruct" -> emptyStruct
      [] name = "int" -> Scalar("int")
      [] OTHER -> MyConfig

\* got := testConfig{K: "hardcoded"} of Test_Integration
Hardcoded == [ZeroValue(testConfig) EXCEPT ![8] = <<"h","a","r","d","c","o","d","e","d">>]

RECURSIVE PresetValue(_)
\* a value with a non-zero default in every field
PresetValue(t) ==
    IF t.Kind = "struct" THEN [i \in 1..Len(t.Fields) |-> PresetValue(t.Fields[i].Type)]
    ELSE IF t.Kind = "slice" THEN GoAppend(NilSlice, PresetValue(t.Elem))
    ELSE IF t.Kind = "ptr" THEN NilPtr
    ELSE IF t.Kind = "bool" THEN TRUE
    ELSE IF t.Kind = "string" THEN <<"d","f","l","t">>
    ELSE 9

\* the structs a caller passes to To besides the one it holds already: a
\* type name and the value held
Targets ==
    {[type |-> "testConfig", val |-> PresetValue(testConfig)],
     [type |-> "MyConfig", val |-> ZeroValue(MyConfig)]}

(***************************************************************************)
(* Files and environments                                                  *)
(***************************************************************************)
\* the temporary file of Test_Integration
TestData == <<
    <<"A","=","1">>,
    <<"B","=","a","b","c">>,
    <<"C","=","4"," ","5"," ","6">>,
    <<"D","o","G","_","_","E","=","t","r","u","e">>,
    <<"D","o","G","_","_","F","E","r","D","I","N","A","N","d","=","t","r","u","e">>,
    <<"G","=","1"," ","y"," ","2">>,
    <<"H","=","-","8","4">>,
    <<"I","=">>,
    <<"L","=","8","h">>,
    <<"M","=","1","2","8">> >>

\* a defaults file for MyConfig, with lines that are no KEY=VALUE pair
Defaults == <<
    <<"a","=","3">>,
    <<"A","=","4">>,
    <<"B","=","-","1","2","8">>,
    <<"C","=","4","0","0","0","0">>,
    <<"n","o"," ","e","q","u","a","l","s"," ","s","i","g","n">>,
    <<"H","=","1",".","5">>,
    <<"I","=","x">>,
    <<"=","5">>,
    <<"K","=","2","5","6">>,
    <<"F","=","x">>,
    <<"f","=">>,
    <<"O","=","1">>,
    <<"G","=","m","a","y","b","e">>,
    <<"O","_","_","P","=","7">>,
    <<"O","_","_","Q","_","_","S","=","T">>,
    <<"O","_","_","Q","_","_","R","=","u","=","v">>,
    <<"U","=","1"," "," "," ","y"," ","2">>,
    <<"V","=","x"," ","y">>,
    <<"D","O","G","_","_","J","=","5">> >>

\* What ioutil.ReadFile and the bufio.Scanner yield for a path: data are the
\* lines of the content returned, readOk is err == nil, notExist tells an
\* os.IsNotExist error from any other, and tooLongAt is the position of the
\* first line the scanner cannot hold (0 when there is none).
FileSystem == [p \in {<<"t","e","s","t","e","n","v">>, <<"d","e","f","a","u","l","t","s">>, <<"n","o","n","e","x","i","s","t","f","i","l","e">>, <<"b","r","o","k","e","n">>, <<"l","o","n","g","l","i","n","e">>} |->
    IF p = <<"t","e","s","t","e","n","v">>
    THEN [data |-> TestData, readOk |-> TRUE, notExist |-> FALSE, tooLongAt |-> 0]
    ELSE IF p = <<"d","e","f","a","u","l","t","s">>
    THEN [data |-> Defaults, readOk |-> TRUE, notExist |-> FALSE, tooLongAt |-> 0]
    ELSE IF p = <<"n","o","n","e","x","i","s","t","f","i","l","e">>
    THEN [data |-> <<>>, readOk |-> FALSE, notExist |-> TRUE, tooLongAt |-> 0]
    ELSE IF p = <<"b","r","o","k","e","n">>
    THEN [data |-> <<<<"K","=","p","a","r","t","i","a","l">>>>, readOk |-> FALSE, notExist |-> FALSE, tooLongAt |-> 0]
    ELSE [data |-> <<<<"M","=","5">>, <<"B","=","v","e","r","y","l","o","n","g">>, <<"A","=","2">>>>, readOk |-> TRUE,
          notExist |-> FALSE, tooLongAt |-> 2] ]

\* the variables a caller may have set in the environment
EnvPool == {
    <<"B","=","o","v","e","r","r","i","d","d","e","n">>,
    <<"b","=","l","o","w","e","r">>,
    <<"C","=">>,
    <<"H","=","7">>,
    <<"d","o","g","_","_","e","=","f">>,
    <<"=","C",":">> }

\* bounds: the variables in one environment, the From and FromEnv calls on
\* one builder, and the To calls on it
MaxEnv == 1

MaxSources == 2

MaxTo == 2

RECURSIVE SeqsUpTo(_, _)
\* the sequences over S of length at most n
SeqsUpTo(S, n) ==
    IF n = 0 THEN {<<>>}
    ELSE LET shorter == SeqsUpTo(S, n - 1)
         IN  shorter \cup {Append(s, x) : s \in {t \in shorter : Len(t) = n - 1}, x \in S}

\* the snapshots os.Environ() may return
Environs == SeqsUpTo(EnvPool, MaxEnv)

(***************************************************************************)
(* The builder                                                             *)
(***************************************************************************)
\* newBuilder(): the map is empty and nothing has failed
\* a builder that starts with an empty, non-nil list of failures
newBuilderEmptyList == [configMap |-> EmptyMap, failedFields |-> [isNil |-> FALSE, elems |-> <<>>]]

newBuilder == [configMap |-> EmptyMap, failedFields |-> NilSlice]

\* fmt.Sprintf("file[%v]", file)
FileFailure(file) == <<"f","i","l","e","[">> \o file \o <<"]">>

\* the lines the scanner of From delivers
Scanned(f) == IF f.tooLongAt = 0 THEN f.data ELSE SubSeq(f.data, 1, f.tooLongAt - 1)

\* a From that does nothing once the builder has recorded a failure
FromStopAfterFailure(b, file) ==
    IF ~b.failedFields.isNil THEN b
    ELSE LET f   == FileSystem[file]
             ff1 == IF ~f.readOk THEN GoAppend(b.failedFields, FileFailure(file))
                    ELSE b.failedFields
             ff2 == IF f.tooLongAt # 0 THEN GoAppend(ff1, FileFailure(file)) ELSE ff1
         IN  [configMap |-> mergeConfig(b.configMap, stringsToMap(Scanned(f))),
              failedFields |-> ff2]

\* a From that returns once it has recorded the failure, merging nothing
FromReturnOnFailure(b, file) ==
    LET f == FileSystem[file]
    IN  IF ~f.readOk \/ f.tooLongAt # 0
        THEN [configMap |-> b.configMap,
              failedFields |-> GoAppend(b.failedFields, FileFailure(file))]
        ELSE [configMap |-> mergeConfig(b.configMap, stringsToMap(Scanned(f))),
              failedFields |-> b.failedFields]

\* b.From(file): the builder afterwards
From(b, file) ==
    LET f   == FileSystem[file]
        ff1 == IF ~f.readOk THEN GoAppend(b.failedFields, FileFailure(file))
               ELSE b.failedFields
        ff2 == IF f.tooLongAt # 0 THEN GoAppend(ff1, FileFailure(file)) ELSE ff1
    IN  [configMap |-> mergeConfig(b.configMap, stringsToMap(Scanned(f))),
         failedFields |-> ff2]

\* b.FromEnv(), environ being what os.Environ() returns
FromEnv(b, environ) ==
    [configMap |-> mergeConfig(b.configMap, stringsToMap(environ)),
     failedFields |-> b.failedFields]

\* a To that starts from an empty list of failures
ToResetFailures(b, t) ==
    LET r == populateStructRecursively(TypeOf(t.type), t.val, <<>>, b.configMap, NilSlice)
    IN  [val |-> r.val,
         failedFields |-> r.failed,
         ret |-> IF r.failed.isNil THEN "nil" ELSE "error"]

\* b.To(&t) for a struct t: val is the struct afterwards, failedFields the
\* builder's list afterwards and ret the error returned.  A target that is no
\* pointer to a struct panics before anything is bound.
To(b, t) ==
    LET r == populateStructRecursively(TypeOf(t.type), t.val, <<>>, b.configMap,
                                       b.failedFields)
    IN  [val |-> r.val,
         failedFields |-> r.failed,
         ret |-> IF r.failed.isNil THEN "nil" ELSE "error"]

\* a ReadFile that returns a failed read without closing the file
ReadFileLeakOnError(file) ==
    LET f == FileSystem[file]
    IN  IF ~f.readOk /\ f.notExist THEN <<>>
        ELSE IF ~f.readOk THEN <<"Open">>
        ELSE <<"Open", "Close">>

\* ioutil.ReadFile(file), as far as the file handle goes: nothing is opened
\* for a file that does not exist; an opened file is closed when ReadFile
\* returns, whether the read failed or not
ReadFile(file) ==
    LET f == FileSystem[file]
    IN  IF ~f.readOk /\ f.notExist THEN <<>> ELSE <<"Open", "Close">>

RECURSIVE FromHandles(_)
\* what the chained From calls do to file handles: From holds none of its own
\* (the scanner reads the bytes ReadFile returned) and has one exit
FromHandles(files) ==
    IF files = <<>> THEN <<>>
    ELSE ReadFile(files[1]) \o <<"Return">> \o FromHandles(Tail(files))

RECURSIVE FromFiles(_, _)
\* From(files[1]).From(files[2])... chained on the builder b
FromFiles(b, files) ==
    IF files = <<>> THEN b ELSE FromFiles(From(b, files[1]), Tail(files))

\* reflect.ValueOf(target).Kind() for a target handed over as a pointer
\* ("ptr"), as a nil pointer ("nilptr"), by value ("value") or as nil ("nil")
ValueKind(tgt) ==
    IF tgt.ref \in {"ptr", "nilptr"} THEN "ptr"
    ELSE IF tgt.ref = "nil" THEN "invalid"
    ELSE TypeOf(tgt.type).Kind

\* reflect.ValueOf(target).Elem().Kind() of a pointer
ElemKind(tgt) == IF tgt.ref = "ptr" THEN TypeOf(tgt.type).Kind ELSE "invalid"

\* a guard that lets a struct handed over by value through
notStructPtrAcceptsValue(tgt) ==
    tgt.ref \in {"nil", "nilptr"} \/ TypeOf(tgt.type).Kind # "struct"

\* the condition under which To panics
notStructPtr(tgt) == ValueKind(tgt) # "ptr" \/ ElemKind(tgt) # "struct"

\* b.To(target) for any target: a panic leaves the target and the builder alone
ToTarget(b, tgt) ==
    IF notStructPtr(tgt)
    THEN [panicked |-> TRUE, val |-> tgt.val, failedFields |-> b.failedFields, ret |-> "none"]
    ELSE LET r == To(b, [type |-> tgt.type, val |-> tgt.val])
         IN  [panicked |-> FALSE, val |-> r.val, failedFields |-> r.failedFields,
              ret |-> r.ret]

\* WithPrefix(prefix).From(file).FromEnv().To(&t): root-level fields are looked
\* up under prefix + structDelim + name
WithPrefixTo(prefix, file, environ, t) ==
    LET b == FromEnv(From(newBuilder, file), environ)
        r == populateStructRecursively(TypeOf(t.type), t.val, prefix \o structDelim,
                                       b.configMap, b.failedFields)
    IN  [val |-> r.val,
         failedFields |-> r.failed,
         ret |-> IF r.failed.isNil THEN "nil" ELSE "error"]

(***************************************************************************)
(* What a source says, read line by line                                   *)
(***************************************************************************)
HasEq(l) == IndexOf(l, "=") > 0

RawKey(l) == SubSeq(l, 1, IndexOf(l, "=") - 1)

RawVal(l) == SubSeq(l, IndexOf(l, "=") + 1, Len(l))

\* the positions of the lines of ss that carry a key and a value
KeptLines(ss) == {i \in 1..Len(ss) : HasEq(ss[i]) /\ RawKey(ss[i]) # <<>> /\ RawVal(ss[i]) # <<>>}

\* per key, folded to lower case: the key as spelled and the value of the
\* last line of ss that carries the key and a value
Winners(ss) ==
    [k \in {ToLower(RawKey(ss[i])) : i \in KeptLines(ss)} |->
        LET hits == {i \in KeptLines(ss) : ToLower(RawKey(ss[i])) = k}
            last == CHOOSE i \in hits : \A h \in hits : h <= i
        IN  [raw |-> RawKey(ss[last]), val |-> RawVal(ss[last])]]

\* the keys, folded, that ss names only in entries without a key or a value
Blanked(ss) ==
    {ToLower(RawKey(ss[i])) : i \in {j \in 1..Len(ss) : HasEq(ss[j])} \ KeptLines(ss)}
    \ DOMAIN Winners(ss)

\* the winners of all sources so far, once ss has been merged as well
Seen(seen, ss) ==
    LET w == Winners(ss)
    IN  [k \in DOMAIN seen \cup DOMAIN w |-> IF k \in DOMAIN w THEN w[k] ELSE seen[k]]

(***************************************************************************)
(* Reading a struct by field paths                                         *)
(*                                                                         *)
(* A path is the sequence of field positions leading from the struct to a  *)
(* field that is no struct.                                                *)
(***************************************************************************)
RECURSIVE LeafPaths(_)
LeafPaths(t) ==
    UNION {IF t.Fields[i].Type.Kind = "struct"
           THEN {<<i>> \o p : p \in LeafPaths(t.Fields[i].Type)}
           ELSE {<<i>>} : i \in 1..Len(t.Fields)}

RECURSIVE FieldAt(_, _)
FieldAt(t, p) ==
    IF Len(p) = 1 THEN t.Fields[p[1]] ELSE FieldAt(t.Fields[p[1]].Type, Tail(p))

RECURSIVE ValueAt(_, _)
ValueAt(v, p) == IF Len(p) = 1 THEN v[p[1]] ELSE ValueAt(v[p[1]], Tail(p))

\* the name a field is known by: its tag when that is not blank, else its name
ResolvedName(f) == IF f.HasTag /\ TrimSpace(f.Tag) # <<>> THEN TrimSpace(f.Tag) ELSE f.Name

RECURSIVE PathName(_, _)
\* the names along a path, joined by the double underscore
PathName(t, p) ==
    IF Len(p) = 1 THEN ResolvedName(t.Fields[p[1]])
    ELSE ResolvedName(t.Fields[p[1]]) \o <<"_","_">> \o PathName(t.Fields[p[1]].Type, Tail(p))

\* what one field holds after being bound to the string value on its own
BindLeaf(t, cur, value) ==
    IF t.Kind = "slice"
    THEN convertAndSetSlice(t.Elem, cur, stringToSlice(value, sliceDelim).elems).val
    ELSE convertAndSetValue(t, cur, value).val

\* the key a field is looked up under: its path name in lower case
KeyOf(t, p) == ToLower(PathName(t, p))

\* does some value of the map cm fail to convert for its field of the struct
\* type t: a scalar as a whole, a slice in one of its tokens
SomeValueFails(t, cm) ==
    \E p \in LeafPaths(t) :
        LET ft    == FieldAt(t, p).Type
            value == Lookup(cm, KeyOf(t, p))
        IN  IF ft.Kind = "slice"
            THEN \E tok \in {TrimSpace(piece) : piece \in
                                {Split(value, sliceDelim)[i] :
                                    i \in 1..Len(Split(value, sliceDelim))}} :
                    tok # <<>> /\ ~convertAndSetValue(ft.Elem, ZeroValue(ft.Elem), tok).ok
            ELSE value # <<>> /\ ~convertAndSetValue(ft, ZeroValue(ft), value).ok

(***************************************************************************)
(* The state machine: one builder and the struct its caller binds          *)
(***************************************************************************)
VARIABLES
    configMap,      \* Builder.configMap
    failedFields,   \* Builder.failedFields
    target,         \* the struct the caller last passed to To, as To left it
    passed,         \* history: the value that struct held when To was called
    ret,            \* what the last To returned: "none" before, "nil" or "error"
    winner,         \* history: per folded key, the last source entry that set it
    blanked,        \* history: Blanked of the source merged last
    fileFailures,   \* history: the From calls whose file failed
    convFailed,     \* history: some To met a value that did not convert
    nSources,       \* From and FromEnv calls so far
    nTo,            \* To calls so far
    call,           \* a call of one function of the package, with its arguments
    result          \* <<>> before that call has returned, <<its result>> after

vars == <<configMap, failedFields, target, passed, ret, winner, blanked,
          fileFailures, convFailed, nSources, nTo, call, result>>

builder == [configMap |-> configMap, failedFields |-> failedFields]

\* a fresh builder, and a caller that has declared its struct
Init ==
    /\ configMap = newBuilder.configMap
    /\ failedFields = newBuilder.failedFields
    /\ target = [type |-> "testConfig", val |-> Hardcoded]
    /\ passed = target.val
    /\ ret = "none"
    /\ winner = EmptyMap
    /\ blanked = {}
    /\ fileFailures = 0
    /\ convFailed = FALSE
    /\ nSources = 0
    /\ nTo = 0
    /\ call = [fn |-> "none"]
    /\ result = <<>>

\* the caller chains From(file); sources are merged before the first To
DoFrom(file) ==
    /\ nSources < MaxSources
    /\ nTo = 0
    /\ LET b == From(builder, file)
       IN  configMap' = b.configMap /\ failedFields' = b.failedFields
    /\ winner' = Seen(winner, Scanned(FileSystem[file]))
    /\ blanked' = Blanked(Scanned(FileSystem[file]))
    /\ fileFailures' = fileFailures +
          (IF ~FileSystem[file].readOk \/ FileSystem[file].tooLongAt # 0 THEN 1 ELSE 0)
    /\ nSources' = nSources + 1
    /\ UNCHANGED <<target, passed, ret, convFailed, nTo, call, result>>

\* the caller chains FromEnv() while the environment is environ
DoFromEnv(environ) ==
    /\ nSources < MaxSources
    /\ nTo = 0
    /\ LET b == FromEnv(builder, environ)
       IN  configMap' = b.configMap /\ failedFields' = b.failedFields
    /\ winner' = Seen(winner, environ)
    /\ blanked' = Blanked(environ)
    /\ nSources' = nSources + 1
    /\ UNCHANGED <<target, passed, ret, fileFailures, convFailed, nTo, call, result>>

\* the caller binds the struct t
DoTo(t) ==
    /\ nTo < MaxTo
    /\ LET r == To(builder, t)
       IN  /\ target' = [type |-> t.type, val |-> r.val]
           /\ failedFields' = r.failedFields
           /\ ret' = r.ret
    /\ passed' = t.val
    /\ convFailed' = (convFailed \/ SomeValueFails(TypeOf(t.type), configMap))
    /\ nTo' = nTo + 1
    /\ UNCHANGED <<configMap, winner, blanked, fileFailures, nSources, call, result>>

FromAny == \E file \in DOMAIN FileSystem : DoFrom(file)

FromEnvAny == \E environ \in Environs : DoFromEnv(environ)

\* a fresh struct is bound, or the one bound before once more
ToAny == \E t \in Targets \cup {target} : DoTo(t)

Next == FromAny \/ FromEnvAny \/ ToAny

Spec == Init /\ [][Next]_vars

(***************************************************************************)
(* The aggregate error                                                     *)
(***************************************************************************)
\* the nil *Error, and &Error{}
NilError == [isNil |-> TRUE, fileErrors |-> <<>>, fieldErrors |-> <<>>]

EmptyError == [isNil |-> FALSE, fileErrors |-> <<>>, fieldErrors |-> <<>>]

\* os.ErrNotExist, and errors.New("oops")
ErrNotExist == [kind |-> "file", notExist |-> TRUE, msg |-> <<"f","i","l","e"," ","d","o","e","s"," ","n","o","t"," ","e","x","i","s","t">>]

Oops == [kind |-> "file", notExist |-> FALSE, msg |-> <<"o","o","p","s">>]

\* os.IsNotExist(err)
IsNotExist(err) == err.notExist

\* b.appendFileError(err), e being b.err before and the result b.err after
appendFileError(e, err) ==
    LET e1 == IF e.isNil THEN EmptyError ELSE e
    IN  [e1 EXCEPT !.fileErrors = Append(e1.fileErrors, err)]

\* e.FileNotExistErrors()
FileNotExistErrors(e) ==
    IF e.isNil THEN FALSE
    ELSE \E i \in 1..Len(e.fileErrors) : IsNotExist(e.fileErrors[i])

\* a FileParseErrors that is true for any file error
FileParseErrorsAny(e) ==
    IF e.isNil THEN FALSE
    ELSE Len(e.fileErrors) > 0

\* e.FileParseErrors()
FileParseErrors(e) ==
    IF e.isNil THEN FALSE
    ELSE \E i \in 1..Len(e.fileErrors) : ~IsNotExist(e.fileErrors[i])

\* e.FieldParseErrors()
FieldParseErrors(e) ==
    IF e.isNil THEN FALSE
    ELSE Len(e.fieldErrors) > 0

\* the errors From meets on a file: the one of reading it, the one of the
\* scanner
FileErrorsOf(file) ==
    LET f == FileSystem[file]
    IN  (IF ~f.readOk THEN <<IF f.notExist THEN ErrNotExist ELSE Oops>> ELSE <<>>)
        \o (IF f.tooLongAt # 0 THEN <<Oops>> ELSE <<>>)

RECURSIVE AppendFileErrors(_, _)
AppendFileErrors(e, errs) ==
    IF errs = <<>> THEN e
    ELSE AppendFileErrors(appendFileError(e, errs[1]), Tail(errs))

RECURSIVE RecordFiles(_, _)
\* b.err after From has been chained for each of the files, starting from e
RecordFiles(e, files) ==
    IF files = <<>> THEN e
    ELSE RecordFiles(AppendFileErrors(e, FileErrorsOf(files[1])), Tail(files))

\* strconv.Quote of a string of plain letters and digits
Quote(s) == <<"\"">> \o s \o <<"\"">>

\* the *strconv.NumError of strconv.Atoi(s) for an s that is no number
AtoiError(s) == [kind |-> "NumError", fn |-> <<"A","t","o","i">>, num |-> s, why |-> <<"i","n","v","a","l","i","d"," ","s","y","n","t","a","x">>]

\* &fieldError{name, t, err} and &sliceError{name, t, index, err}
fieldError(name, t, err) == [kind |-> "fieldError", name |-> name, t |-> t, err |-> err]

sliceError(name, t, index, err) ==
    [kind |-> "sliceError", name |-> name, t |-> t, index |-> index, err |-> err]

RECURSIVE ErrorMsg(_)
\* err.Error()
ErrorMsg(err) ==
    IF err.kind = "NumError"
    THEN <<"s","t","r","c","o","n","v",".">> \o err.fn \o <<":"," ","p","a","r","s","i","n","g"," ">> \o Quote(err.num) \o <<":"," ">> \o err.why
    ELSE IF err.kind = "fieldError"
    THEN <<"f","a","i","l","e","d"," ","t","o"," ","p","a","r","s","e"," ">> \o err.t \o <<" ","v","a","l","u","e"," ","f","o","r"," ","f","i","e","l","d"," ">> \o err.name \o <<":"," ">>
         \o ErrorMsg(err.err)
    ELSE IF err.kind = "sliceError"
    THEN <<"f","a","i","l","e","d"," ","t","o"," ","p","a","r","s","e"," ">> \o err.t \o <<" ","v","a","l","u","e"," ","f","o","r"," ","s","l","i","c","e"," ">> \o err.name
         \o <<" ","a","t"," ","i","n","d","e","x"," ">> \o Itoa(err.index) \o <<":"," ">> \o ErrorMsg(err.err)
    ELSE err.msg

\* b.appendFieldError(err, fieldName, fieldType)
appendFieldError(e, err, fieldName, fieldType) ==
    LET e1 == IF e.isNil THEN EmptyError ELSE e
    IN  [e1 EXCEPT !.fieldErrors = Append(e1.fieldErrors, err)]

\* b.appendSliceError(err, fieldName, fieldType, index)
appendSliceError(e, err, fieldName, fieldType, index) ==
    LET e1 == IF e.isNil THEN EmptyError ELSE e
    IN  [e1 EXCEPT !.fieldErrors =
            Append(e1.fieldErrors, sliceError(fieldName, fieldType, index, err))]

RECURSIVE JoinMsgs(_)
\* fmt's %v of a slice of errors, without the brackets
JoinMsgs(errs) ==
    IF errs = <<>> THEN <<>>
    ELSE IF Len(errs) = 1 THEN ErrorMsg(errs[1])
    ELSE ErrorMsg(errs[1]) \o <<" ">> \o JoinMsgs(Tail(errs))

\* e.Error()
ErrorString(e) == <<"[">> \o JoinMsgs(e.fileErrors \o e.fieldErrors) \o <<"]">>

\* the message read for a value s that failed to convert: of a fieldError, of
\* a sliceError, or of the aggregate after the failure was appended to it
MessageVia(via, name, t, index, s) ==
    IF via = "fieldError" THEN ErrorMsg(fieldError(name, t, AtoiError(s)))
    ELSE IF via = "sliceError" THEN ErrorMsg(sliceError(name, t, index, AtoiError(s)))
    ELSE IF via = "appendFieldError"
    THEN ErrorString(appendFieldError(NilError, AtoiError(s), name, t))
    ELSE ErrorString(appendSliceError(NilError, AtoiError(s), name, t, index))

(***************************************************************************)
(* Calls of single functions                                               *)
(***************************************************************************)
\* the scalar types convertAndSetValue is called on, and a pointer, which it
\* does not handle
ScalarTypes ==
    {Scalar(k) : k \in SignedKinds \cup UnsignedKinds \cup FloatKinds \cup {"bool", "string"}}
    \cup {DurationType, Named("int", "main", "MyInt"), PtrTo(Scalar("int"))}

\* the strings handed to the conversions
StrPool == {
    <<>>, <<"0">>, <<"1">>, <<"2">>, <<"-","2">>, <<"-","8","4">>, <<"1","2","7">>, <<"1","2","8">>, <<"-","1","2","8">>, <<"-","1","2","9">>,
    <<"2","0","0">>, <<"2","5","5">>, <<"2","5","6">>, <<"3","2","7","6","7">>, <<"3","2","7","6","8">>, <<"-","3","2","7","6","8">>, <<"-","3","2","7","6","9">>,
    <<"4","0","0","0","0">>, <<"6","5","5","3","5">>, <<"6","5","5","3","6">>, <<"1","0","0","0","0","0">>, <<"+","5">>, <<"-">>, <<"1","x">>, <<" ","1">>,
    <<"a","b","c">>, <<"t">>, <<"t","r","u","e">>, <<"T","R","U","E">>, <<"f">>, <<"F","a","l","s","e">>, <<"m","a","y","b","e">>,
    <<"1",".","1">>, <<"1",".","5">>, <<"-","2",".","5">>, <<".">>, <<"8","h">>, <<"9","0","s">> }

\* a settable holds the zero value of its type or a default the caller set
ConvCalls ==
    {[fn |-> "convertAndSetValue", t |-> t, cur |-> cur, s |-> s] :
        t \in ScalarTypes, cur \in {"zero", "preset"}, s \in StrPool}

CurOf(c) == IF c.cur = "zero" THEN ZeroValue(c.t) ELSE PresetValue(c.t)

\* the slices convertAndSetSlice is called on and the values handed to it
SliceElemTypes == {Scalar("int"), Scalar("string"), Scalar("bool"), Scalar("uint8")}

TokenPool == {<<"1">>, <<"x">>, <<"3">>, <<"3","0","0">>}

MaxTokens == 3

SliceCalls ==
    {[fn |-> "convertAndSetSlice", t |-> SliceOf(e), cur |-> cur, values |-> values] :
        e \in SliceElemTypes, cur \in {"zero", "preset"},
        values \in SeqsUpTo(TokenPool, MaxTokens)}

\* an environment with a value for every field of unsupportedConfig, and one
\* with values for the two supported fields only
UnsupportedSet ==
    << <<"A","=","a">>, <<"P","=","5">>, <<"M","=","k",":","v">>, <<"S","=","r"," ","s">>,
       <<"C","=","1">>, <<"R","=","1"," ","2">>, <<"F","=","f">>,
       <<"Z","=","1">>, <<"B","=","7">> >>

UnsupportedUnset == << <<"A","=","a">>, <<"B","=","7">> >>

\* the targets handed to To: pointers to structs, and what is none (val is
\* the tuple of the values held: the fields of a struct, the one int)
ToTargets ==
    {[ref |-> "ptr", type |-> "emptyStruct", val |-> ZeroValue(emptyStruct)],
     [ref |-> "ptr", type |-> "testConfig", val |-> Hardcoded],
     [ref |-> "ptr", type |-> "unsupportedConfig", val |-> ZeroValue(unsupportedConfig)],
     [ref |-> "value", type |-> "emptyStruct", val |-> ZeroValue(emptyStruct)],
     [ref |-> "value", type |-> "testConfig", val |-> Hardcoded],
     [ref |-> "nilptr", type |-> "testConfig", val |-> <<>>],
     [ref |-> "ptr", type |-> "int", val |-> <<0>>],
     [ref |-> "value", type |-> "int", val |-> <<0>>],
     [ref |-> "nil", type |-> "nil", val |-> <<>>]}

\* the environments FromEnv() reads before those calls of To
\* the nested keys of Test_Integration, beside keys made of the declared names
NestedTagged ==
    << <<"D","o","G","_","_","E","=","t","r","u","e">>, <<"D","o","G","_","_","F","E","r","D","I","N","A","N","d","=","t","r","u","e">>, <<"D","_","_","E","=","f","a","l","s","e">>, <<"d","O","g","_","_","F","=","f","a","l","s","e">> >>

\* keys made of the declared name of D or of F only
NestedByName == << <<"D","_","_","E","=","t","r","u","e">>, <<"D","_","_","F","=","t","r","u","e">>, <<"d","O","g","_","_","F","=","t","r","u","e">>, <<"D","_","_","f","e","R","d","i","N","a","N","D","=","t","r","u","e">> >>

\* slice values with runs of spaces and with tokens that are no numbers
SliceIndexed == << <<"G","=","1"," "," "," ","y"," ","2">>, <<"C","=","x"," ","y"," ","3">> >>

ToEnvs ==
    {<<>>, TestData, UnsupportedSet, UnsupportedUnset, NestedTagged, NestedByName,
     SliceIndexed}

ToCalls ==
    {[fn |-> "To", environ |-> e, tgt |-> tgt] : e \in ToEnvs, tgt \in ToTargets}

MaxFiles == 2

\* the files From is chained for before the error is asked for its kinds
KindCalls ==
    {[fn |-> "Error.kinds", files |-> files] : files \in SeqsUpTo(DOMAIN FileSystem, MaxFiles)}

\* values that are no numbers, and the errors whose message is read for them
SecretPool == {<<"x","y","z">>, <<"h","u","n","t","e","r","2">>, <<"s","3","c","r","e","t">>}

MessageCalls ==
    {[fn |-> "Error.message", via |-> via, name |-> <<"p","o","r","t">>, t |-> <<"i","n","t">>,
      index |-> i, s |-> s] :
        via \in {"fieldError", "sliceError", "appendFieldError", "appendSliceError"},
        i \in 0..1, s \in SecretPool}

\* the prefixes, files and environments of the calls of To after WithPrefix
PrefixPool == {<<"O">>, <<"o">>, <<"M","Y","A","P","P">>}

PrefixEnvs ==
    {<<>>,
     << <<"O","_","_","A","=","a">>, <<"o","_","_","b","=","b">> >>,
     << <<"M","Y","A","P","P","_","_","A","=","a">>, <<"M","Y","A","P","P","_","_","B","=","b">>, <<"m","y","a","p","p","_","_","p","=","x">> >>,
     << <<"A","=","b","a","r","e">>, <<"P","=","1">> >>}

PrefixCalls ==
    {[fn |-> "WithPrefix.To", prefix |-> p, file |-> f, environ |-> e] :
        p \in PrefixPool, f \in {<<"d","e","f","a","u","l","t","s">>, <<"t","e","s","t","e","n","v">>, <<"n","o","n","e","x","i","s","t","f","i","l","e">>},
        e \in PrefixEnvs}

\* the struct fields and prefixes of the calls of getKey
KeyFields ==
    {Field(n, Scalar("string")) : n \in {<<"n","a","m","e">>, <<"n","A","M","e">>}}
    \cup {Tagged(n, t, Scalar("string")) :
            n \in {<<"n","a","m","e">>, <<"n","A","M","e">>},
            t \in {<<>>, <<" "," "," "," ">>, <<" "," ","t","a","g"," "," ">>, <<"t","A","g">>, <<" ","a"," ","b">>, <<"\t", "T", "\n">>}}

KeyPrefixes == {<<>>, <<"p","r","e","_","_">>, <<"p","R","e","_","_">>, <<" ","P"," ">>}

KeyCalls == {[fn |-> "getKey", f |-> f, prefix |-> p] : f \in KeyFields, p \in KeyPrefixes}

\* the lines stringsToMap is called on: those of Test_stringsToMap and others
LinePool ==
    {<<>>, <<" "," "," "," "," ">>, <<"=">>, <<"A","=">>, <<"B","=","1">>, <<"b","=","2">>, <<"B","=","1","=","2">>, <<" ","B"," ","=","1"," ">>, <<"=","3">>, <<"n","o","e","q">>}

MaxLines == 2

MapCalls ==
    {[fn |-> "stringsToMap", ss |-> ss] :
        ss \in SeqsUpTo(LinePool, MaxLines)
                \cup {<< <<>>, <<" "," "," "," "," ">>, <<"=">>, <<"A","=">>, <<"B","=","1">> >>}}

\* the chains From(..).From(..).FromEnv().To(&got) of Test_Integration and of
\* the example program, over any files and with other environments
ChainCalls ==
    {[fn |-> "From.FromEnv.To", files |-> files, environ |-> e, tgt |-> t] :
        files \in SeqsUpTo(DOMAIN FileSystem, MaxFiles),
        e \in {<< <<"B","=","o","v","e","r","r","i","d","d","e","n">>, <<"C","=">> >>,
               << <<"D","o","G","_","_","E","=","m","a","y","b","e">>, <<"A","=","x">>, <<"C","=","x"," ","y"," ","3">>, <<"d","o","g","_","_","j","=","1">>,
                  <<"O","_","_","P","=","x">>, <<"O","_","_","Q","_","_","S","=","m","a","y","b","e">>, <<"U","=","1"," ","x"," ","y">>, <<"N","=","-","1">> >>},
        t \in {[ref |-> "ptr", type |-> "testConfig", val |-> Hardcoded],
               [ref |-> "ptr", type |-> "MyConfig", val |-> ZeroValue(MyConfig)]}}

\* the inputs and delimiters of Test_stringToSlice, and others
TokenizerCalls ==
    {[fn |-> "stringToSlice", in |-> in, delim |-> d] :
        in \in {<<>>, <<" "," "," "," "," "," ">>, <<" "," ","a"," ","b"," ","c"," ","d","e","f"," ","g","h","i"," "," "," "," "," ">>, <<" "," ","a",","," ","b",","," ","c"," ",",","d","e","f"," ",",","g","h","i",","," "," "," "," "," ">>,
                <<","," ",",">>, <<"a">>, <<" ",",","a">>, <<"a"," ",",","b"," ",","," ">>, <<"1"," "," "," ","y"," ","2">>},
        d \in {<<>>, <<" ">>, <<",">>, <<" ",",">>, <<","," ">>, <<" "," ">>}}

\* the files From is chained for while the file handles are watched
HandleCalls ==
    {[fn |-> "From.handles", files |-> files] :
        files \in SeqsUpTo(DOMAIN FileSystem, MaxFiles)}

\* the calls of single functions
Calls == HandleCalls \cup TokenizerCalls \cup ChainCalls \cup MapCalls \cup KeyCalls \cup PrefixCalls \cup ConvCalls \cup SliceCalls \cup ToCalls \cup KindCalls \cup MessageCalls

\* a call of the package is about to be made
FnInit ==
    /\ configMap = newBuilder.configMap
    /\ failedFields = newBuilder.failedFields
    /\ target = [type |-> "testConfig", val |-> Hardcoded]
    /\ passed = target.val
    /\ ret = "none"
    /\ winner = EmptyMap
    /\ blanked = {}
    /\ fileFailures = 0
    /\ convFailed = FALSE
    /\ nSources = 0
    /\ nTo = 0
    /\ call \in Calls
    /\ result = <<>>

\* convertAndSetValue(settable, s) is called and returns
CallConvertAndSetValue ==
    /\ call.fn = "convertAndSetValue"
    /\ result = <<>>
    /\ result' = <<convertAndSetValue(call.t, CurOf(call), call.s)>>
    /\ UNCHANGED <<configMap, failedFields, target, passed, ret, winner, blanked,
                   fileFailures, convFailed, nSources, nTo, call>>

\* convertAndSetSlice(slicePtr, values) is called and returns
CallConvertAndSetSlice ==
    /\ call.fn = "convertAndSetSlice"
    /\ result = <<>>
    /\ result' = <<convertAndSetSlice(call.t.Elem, CurOf(call), call.values)>>
    /\ UNCHANGED <<configMap, failedFields, target, passed, ret, winner, blanked,
                   fileFailures, convFailed, nSources, nTo, call>>

\* FromEnv().To(target), or From(..).From(..).FromEnv().To(&got), is called and
\* returns or panics
CallTo ==
    /\ call.fn \in {"To", "From.FromEnv.To"}
    /\ result = <<>>
    /\ LET files == IF call.fn = "To" THEN <<>> ELSE call.files
       IN  result' = <<ToTarget(FromEnv(FromFiles(newBuilder, files), call.environ),
                               call.tgt)>>
    /\ UNCHANGED <<configMap, failedFields, target, passed, ret, winner, blanked,
                   fileFailures, convFailed, nSources, nTo, call>>

\* the methods of the error are called after From was chained for the files
CallErrorKinds ==
    /\ call.fn = "Error.kinds"
    /\ result = <<>>
    /\ LET e == RecordFiles(NilError, call.files)
       IN  result' = <<[notExist |-> FileNotExistErrors(e),
                        parse |-> FileParseErrors(e),
                        field |-> FieldParseErrors(e)]>>
    /\ UNCHANGED <<configMap, failedFields, target, passed, ret, winner, blanked,
                   fileFailures, convFailed, nSources, nTo, call>>

\* Error() is called on the error of a value that failed to convert
CallErrorMessage ==
    /\ call.fn = "Error.message"
    /\ result = <<>>
    /\ result' = <<MessageVia(call.via, call.name, call.t, call.index, call.s)>>
    /\ UNCHANGED <<configMap, failedFields, target, passed, ret, winner, blanked,
                   fileFailures, convFailed, nSources, nTo, call>>

\* WithPrefix(prefix).From(file).FromEnv().To(&got) is called for a zero got
CallWithPrefixTo ==
    /\ call.fn = "WithPrefix.To"
    /\ result = <<>>
    /\ result' = <<WithPrefixTo(call.prefix, call.file, call.environ,
                                [type |-> "prefixedConfig",
                                 val |-> ZeroValue(prefixedConfig)])>>
    /\ UNCHANGED <<configMap, failedFields, target, passed, ret, winner, blanked,
                   fileFailures, convFailed, nSources, nTo, call>>

\* getKey(tt.args.t, tt.args.prefix) is called
CallGetKey ==
    /\ call.fn = "getKey"
    /\ result = <<>>
    /\ result' = <<getKey(call.f, call.prefix)>>
    /\ UNCHANGED <<configMap, failedFields, target, passed, ret, winner, blanked,
                   fileFailures, convFailed, nSources, nTo, call>>

\* stringsToMap(tt.args.ss) is called
CallStringsToMap ==
    /\ call.fn = "stringsToMap"
    /\ result = <<>>
    /\ result' = <<stringsToMap(call.ss)>>
    /\ UNCHANGED <<configMap, failedFields, target, passed, ret, winner, blanked,
                   fileFailures, convFailed, nSources, nTo, call>>

\* stringToSlice(tt.args.in, tt.args.delim) is called and returns or panics
CallStringToSlice ==
    /\ call.fn = "stringToSlice"
    /\ result = <<>>
    /\ result' = <<stringToSliceOrPanic(call.in, call.delim)>>
    /\ UNCHANGED <<configMap, failedFields, target, passed, ret, winner, blanked,
                   fileFailures, convFailed, nSources, nTo, call>>

\* From(..).From(..) is called
CallFromHandles ==
    /\ call.fn = "From.handles"
    /\ result = <<>>
    /\ result' = <<[events |-> FromHandles(call.files)]>>
    /\ UNCHANGED <<configMap, failedFields, target, passed, ret, winner, blanked,
                   fileFailures, convFailed, nSources, nTo, call>>

FnNext ==
    \/ CallFromHandles
    \/ CallStringToSlice
    \/ CallStringsToMap
    \/ CallGetKey
    \/ CallWithPrefixTo
    \/ CallConvertAndSetValue
    \/ CallConvertAndSetSlice
    \/ CallTo
    \/ CallErrorKinds
    \/ CallErrorMessage

FnSpec == FnInit /\ [][FnNext]_vars

\* the struct type of the target, and the steps of the builder
TargetType == TypeOf(target.type)

MergeStep == nSources' = nSources + 1

ToStep == nTo' = nTo + 1

(***************************************************************************)
(* Properties                                                              *)
(***************************************************************************)
\* C1: after any sequence of From and FromEnv calls the builder holds, for
\* every key, the value the key had in the last merged source that contained
\* it with a non-empty value; keys a later source lacks keep their value.
OverrideByRecency == configMap = [k \in DOMAIN winner |-> winner[k].val]

\* the file of the integration test was merged and then an environment that
\* overrides b: b has the later value, a keeps the value of the file, and To
\* binds both
OverrideByRecencyWitness ==
    /\ nSources = 2
    /\ Lookup(configMap, <<"b">>) = <<"o","v","e","r","r","i","d","d","e","n">>
    /\ Lookup(configMap, <<"a">>) = <<"1">>
    /\ nTo = 1
    /\ target.type = "testConfig"
    /\ target.val[2] = <<"o","v","e","r","r","i","d","d","e","n">>
    /\ target.val[1] = 1

\* C2: an entry with an empty value or an empty key is discarded and changes
\* nothing: merging a source leaves the builder's value untouched for every
\* key the source names only in such entries, and To binds a field of such a
\* key from the value merged before, never from the empty one.
EmptyEntriesChangeNothing ==
    [][ /\ MergeStep =>
              \A k \in blanked' : Lookup(configMap', k) = Lookup(configMap, k)
        /\ ToStep =>
              \A p \in LeafPaths(TypeOf(target'.type)) :
                  KeyOf(TypeOf(target'.type), p) \in blanked =>
                      ValueAt(target'.val, p) =
                          BindLeaf(FieldAt(TypeOf(target'.type), p).Type,
                                   ValueAt(passed', p),
                                   Lookup(configMap, KeyOf(TypeOf(target'.type), p)))
      ]_vars

\* the file of the integration test set C to "4 5 6", the environment merged
\* after it had C= with no value, and To bound C to [4, 5, 6]
EmptyEntriesChangeNothingWitness ==
    /\ nSources = 2
    /\ <<"c">> \in blanked
    /\ Lookup(configMap, <<"c">>) = <<"4", " ", "5", " ", "6">>
    /\ nTo = 1
    /\ target.type = "testConfig"
    /\ target.val[3] = [isNil |-> FALSE, elems |-> <<4, 5, 6>>]

\* C3: key lookup is case-insensitive end to end: whatever the letter case of
\* a source key and of a field's resolved path (name or struct tag), when the
\* two are equal up to case To binds the field from that key's value.
CaseInsensitiveLookup ==
    nTo > 0 =>
        \A k \in DOMAIN winner :
            \A p \in LeafPaths(TargetType) :
                ToLower(PathName(TargetType, p)) = ToLower(winner[k].raw) =>
                    ValueAt(target.val, p) =
                        BindLeaf(FieldAt(TargetType, p).Type, ValueAt(passed, p),
                                 winner[k].val)

\* the source key DoG__FErDINANd and the tagged path dOg__feRdiNaND differ in
\* case from each other and from the folded key, and To bound the field F
CaseInsensitiveLookupWitness ==
    /\ nTo = 1
    /\ target.type = "testConfig"
    /\ \E k \in DOMAIN winner :
          \E p \in LeafPaths(TargetType) :
              /\ winner[k].raw # k
              /\ PathName(TargetType, p) # k
              /\ PathName(TargetType, p) # winner[k].raw
              /\ ToLower(PathName(TargetType, p)) = k
              /\ FieldAt(TargetType, p).HasTag
              /\ ValueAt(target.val, p) # ValueAt(passed, p)

\* C4: a field nested at any depth is looked up under the lower-cased names of
\* its ancestors, each followed by "__", then its own name; the key of a
\* struct field itself is never used as a value.
NestedPrefix ==
    nTo > 0 =>
        \A p \in LeafPaths(TargetType) :
            Len(p) > 1 =>
                ValueAt(target.val, p) =
                    BindLeaf(FieldAt(TargetType, p).Type, ValueAt(passed, p),
                             Lookup(configMap, ToLower(PathName(TargetType, p))))

\* O.Q.S, two levels down, was bound from o__q__s and O.P from o__p while the
\* map also held a value under the key o of the struct field itself
NestedPrefixWitness ==
    /\ nTo > 0
    /\ target.type = "MyConfig"
    /\ <<"o">> \in DOMAIN configMap
    /\ Lookup(configMap, <<"o","_","_","q","_","_","s">>) = <<"T">>
    /\ target.val[15][2][2] = TRUE
    /\ target.val[15][1] = 7
    /\ passed[15][2][2] = FALSE

RECURSIVE ConvertedTokens(_, _)
\* of the tokens of a slice value, those that convert, converted, in order
ConvertedTokens(elemType, tokens) ==
    IF tokens = <<>> THEN <<>>
    ELSE LET r == convertAndSetValue(elemType, ZeroValue(elemType), tokens[1])
         IN  (IF r.ok THEN <<r.val>> ELSE <<>>) \o ConvertedTokens(elemType, Tail(tokens))

\* C5: all fields are always attempted: after To every scalar field whose
\* value converts holds the converted value, and every slice holds what it
\* held before followed by each of its tokens that converts, however many
\* other fields or tokens failed.
AllFieldsAttempted ==
    nTo > 0 =>
        \A p \in LeafPaths(TargetType) :
            LET ft    == FieldAt(TargetType, p).Type
                cur   == ValueAt(passed, p)
                value == Lookup(configMap, KeyOf(TargetType, p))
            IN  IF ft.Kind = "slice"
                THEN ValueAt(target.val, p).elems =
                         cur.elems \o
                         ConvertedTokens(ft.Elem, stringToSlice(value, sliceDelim).elems)
                ELSE convertAndSetValue(ft, cur, value).ok =>
                         ValueAt(target.val, p) = convertAndSetValue(ft, cur, value).val

\* the integration test: token 1 of G, then H and M did not convert, yet G
\* got the tokens around the bad one, and the fields after the failures
\* (L after H, and E of the nested D) were bound
AllFieldsAttemptedWitness ==
    /\ nTo = 1
    /\ target.type = "testConfig"
    /\ passed = Hardcoded
    /\ ret = "error"
    /\ Len(failedFields.elems) >= 3
    /\ target.val[5].elems = <<1, 2>>
    /\ target.val[9] = 28800
    /\ target.val[4][1] = TRUE

ParsedKinds == SignedKinds \cup UnsignedKinds \cup FloatKinds \cup {"bool"}

\* the call of convertAndSetValue has returned
Returned == call.fn = "convertAndSetValue" /\ result # <<>>

\* C8: for every supported scalar kind (signed, unsigned, float, bool), when a
\* non-empty string fails to parse, the destination keeps exactly the value
\* it held before the call, a default pre-set by the caller included.
FailedParseKeepsValue ==
    (Returned /\ call.s # <<>> /\ call.t.Kind \in ParsedKinds /\ ~result[1].ok) =>
        result[1].val = CurOf(call)

\* an optional minus sign followed by digits, and the number it writes
IsDecimal(s) ==
    /\ s # <<>>
    /\ IF s[1] = "-" THEN Len(s) > 1 /\ AllDigits(Tail(s)) ELSE AllDigits(s)

DecimalValue(s) == IF s[1] = "-" THEN 0 - ParseDigits(Tail(s)) ELSE ParseDigits(s)

\* the range of an integer kind; the widths of 32 bits and more hold every
\* number written with at most nine digits
InRange(kind, v) ==
    CASE kind = "int8"   -> v >= -128 /\ v <= 127
      [] kind = "int16"  -> v >= -32768 /\ v <= 32767
      [] kind = "uint8"  -> v >= 0 /\ v <= 255
      [] kind = "uint16" -> v >= 0 /\ v <= 65535
      [] kind \in UnsignedKinds -> v >= 0
      [] OTHER -> TRUE

\* C10: a decimal string is accepted for an integer field exactly when its
\* value lies in the range of the field's width and signedness: a value in
\* range is stored unchanged, a value out of range is a conversion failure
\* that leaves the field at its prior value.
IntegerRangeExact ==
    (/\ Returned
     /\ call.t.Kind \in SignedKinds \cup UnsignedKinds
     /\ call.t.PkgPath # "time"
     /\ IsDecimal(call.s)) =>
        IF InRange(call.t.Kind, DecimalValue(call.s))
        THEN result[1].ok /\ result[1].val = DecimalValue(call.s)
        ELSE ~result[1].ok /\ result[1].val = CurOf(call)

\* C11: slice conversion skips failures instead of aborting: the slice ends
\* with what it held followed by exactly the values that converted, in their
\* order and with nothing in the place of a failed one, and the 0-based index
\* of every failed value is reported once, in ascending order.
SliceSkipsFailures ==
    (call.fn = "convertAndSetSlice" /\ result # <<>>) =>
        LET r    == result[1]
            elem == call.t.Elem
            bad  == {i \in 1..Len(call.values) :
                        ~convertAndSetValue(elem, ZeroValue(elem), call.values[i]).ok}
        IN  /\ r.val.elems = CurOf(call).elems \o ConvertedTokens(elem, call.values)
            /\ Len(r.val.elems) = Len(CurOf(call).elems) + Len(call.values) - Cardinality(bad)
            /\ {r.failed[j] : j \in 1..Len(r.failed)} = {i - 1 : i \in bad}
            /\ Len(r.failed) = Cardinality(bad)
            /\ \A j \in 1..(Len(r.failed) - 1) : r.failed[j] < r.failed[j + 1]

\* the values "1", "x", "3" converted into a nil []int give [1, 3] and the
\* failed index 1
SliceSkipsFailuresWitness ==
    /\ call.fn = "convertAndSetSlice"
    /\ call.t.Elem = Scalar("int")
    /\ call.cur = "zero"
    /\ call.values = << <<"1">>, <<"x">>, <<"3">> >>
    /\ result = <<[val |-> [isNil |-> FALSE, elems |-> <<1, 3>>], failed |-> <<1>>]>>

\* C12: To panics, returning nothing and binding nothing, whenever its target
\* is not a pointer to a struct (a struct by value, a pointer to a scalar, a
\* scalar, nil, a nil pointer), and does not panic for a pointer to a struct,
\* an empty one included.
PanicsUnlessStructPointer ==
    (call.fn = "To" /\ result # <<>>) =>
        LET r == result[1]
            pointsToStruct ==
                /\ call.tgt.ref = "ptr"
                /\ call.tgt.type \in {"testConfig", "emptyStruct", "MyConfig",
                                      "unsupportedConfig"}
        IN  /\ r.panicked <=> ~pointsToStruct
            /\ r.panicked => (r.val = call.tgt.val /\ r.ret = "none" /\ r.failedFields = NilSlice)
            /\ ~r.panicked => r.ret \in {"nil", "error"}

\* a testConfig handed over by value while the environment holds the lines of
\* the integration test: To panicked and the struct is as it was
PanicsUnlessStructPointerWitness ==
    /\ call.fn = "To"
    /\ call.tgt.ref = "value"
    /\ call.tgt.type = "testConfig"
    /\ call.environ = TestData
    /\ result # <<>>
    /\ result[1].panicked
    /\ result[1].val = Hardcoded

\* the kinds To binds: the scalars convertAndSetValue handles
SupportedKinds == ParsedKinds \cup {"string"}

\* is the field type ft one To cannot bind: an unsupported kind, or a slice
\* of one (structs included)
Unsupported(ft) ==
    IF ft.Kind = "slice" THEN ft.Elem.Kind \notin SupportedKinds
    ELSE ft.Kind \notin SupportedKinds

\* does the sequence seq hold x
InSeq(x, seq) == \E i \in 1..Len(seq) : seq[i] = x

\* To was called on a pointer to a struct that has a field it cannot bind
BoundUnsupported ==
    /\ call.fn = "To"
    /\ result # <<>>
    /\ call.tgt.ref = "ptr"
    /\ call.tgt.type \in {"testConfig", "unsupportedConfig"}

Missing(files) ==
    {i \in 1..Len(files) : ~FileSystem[files[i]].readOk /\ FileSystem[files[i]].notExist}

FailedOtherwise(files) ==
    {i \in 1..Len(files) :
        \/ ~FileSystem[files[i]].readOk /\ ~FileSystem[files[i]].notExist
        \/ FileSystem[files[i]].tooLongAt # 0}

\* C14: file failures are of two disjoint kinds: FileNotExistErrors() is true
\* exactly when some recorded file failure is a does-not-exist failure, and
\* FileParseErrors() exactly when some recorded file failure is of another
\* kind; a single missing file gives true and false, a single other failure
\* false and true.
FileFailureKinds ==
    (call.fn = "Error.kinds" /\ result # <<>>) =>
        /\ result[1].notExist <=> Missing(call.files) # {}
        /\ result[1].parse <=> FailedOtherwise(call.files) # {}
        /\ Missing(call.files) \cap FailedOtherwise(call.files) = {}
        /\ ~result[1].field

\* From("nonexistfile") alone: the file failure is of the does-not-exist kind
\* and of no other
FileFailureKindsWitness ==
    /\ call.fn = "Error.kinds"
    /\ call.files = << <<"n","o","n","e","x","i","s","t","f","i","l","e">> >>
    /\ result = <<[notExist |-> TRUE, parse |-> FALSE, field |-> FALSE]>>

\* does the string sub occur in the string s
IsInfix(sub, s) ==
    \E i \in 1..(Len(s) - Len(sub) + 1) : SubSeq(s, i, i + Len(sub) - 1) = sub

\* C15: the error report never depends on the raw offending value: no message
\* of a field or slice-element error, and no message of the aggregate holding
\* it, contains the string that failed to convert.
NoRawValueInMessage ==
    (call.fn = "Error.message" /\ result # <<>>) => ~IsInfix(call.s, result[1])

\* what a To reported that returned ret with the builder's failures at ff:
\* nothing, or the fields its error lists
Outcome(r, ff) == IF r = "nil" THEN <<>> ELSE ff.elems

\* C16: calling To twice on the same builder, with no merge in between, with
\* two zero-valued targets of the same type gives both targets equal field
\* values and makes both calls report the same outcome.
ToTwiceIdentical ==
    [][ (/\ ToStep
         /\ nTo >= 1
         /\ target'.type = target.type
         /\ passed = ZeroValue(TargetType)
         /\ passed' = ZeroValue(TargetType)) =>
            /\ target'.val = target.val
            /\ ret' = ret
            /\ Outcome(ret', failedFields') = Outcome(ret, failedFields)
      ]_vars

\* C17: after WithPrefix(p), To looks up every root-level field under
\* lower-case(p + "__" + resolved name) and not under the bare name, for
\* entries merged from the file and from the environment alike.
PrefixedLookup ==
    (call.fn = "WithPrefix.To" /\ result # <<>>) =>
        LET seen == Seen(Seen(EmptyMap, Scanned(FileSystem[call.file])), call.environ)
            r    == result[1]
        IN  /\ \A i \in 1..Len(prefixedConfig.Fields) :
                  LET f   == prefixedConfig.Fields[i]
                      key == ToLower(call.prefix \o <<"_", "_">> \o ResolvedName(f))
                      v   == IF key \in DOMAIN seen THEN seen[key].val ELSE <<>>
                  IN  r.val[i] = BindLeaf(f.Type, ZeroValue(f.Type), v)
            /\ (FileSystem[call.file].readOk
                /\ ToLower(call.prefix \o <<"_","_","p">>) \notin DOMAIN seen) => r.ret = "nil"

\* with the prefix O, A and B were bound from the environment's O__A and o__b
\* and P from the file's O__P, with no error, while the file also held the
\* bare keys a and B, which were not used
PrefixedLookupWitness ==
    /\ call.fn = "WithPrefix.To"
    /\ call.prefix = <<"O">>
    /\ call.file = <<"d","e","f","a","u","l","t","s">>
    /\ call.environ = << <<"O","_","_","A","=","a">>, <<"o","_","_","b","=","b">> >>
    /\ result # <<>>
    /\ result[1].val = << <<"a">>, <<"b">>, 7 >>
    /\ result[1].ret = "nil"
    /\ Lookup(stringsToMap(Defaults), <<"a">>) = <<"4">>

\* the positions of a tag that hold something other than white space
Inked(tag) == {i \in 1..Len(tag) : tag[i] \notin {" ", "\t", "\n", "\r"}}

\* a tag without the white space around it
Core(tag) ==
    LET lo == CHOOSE i \in Inked(tag) : \A j \in Inked(tag) : i <= j
        hi == CHOOSE i \in Inked(tag) : \A j \in Inked(tag) : j <= i
    IN  SubSeq(tag, lo, hi)

\* C18: the key of a field is lower-case(prefix + name), name being the tag
\* without its surrounding white space when the tag is present and not blank,
\* and the declared name otherwise; the prefix is lower-cased too.
KeyIsLowerPrefixName ==
    (call.fn = "getKey" /\ result # <<>>) =>
        LET f    == call.f
            name == IF f.HasTag /\ Inked(f.Tag) # {} THEN Core(f.Tag) ELSE f.Name
        IN  result[1] = ToLower(call.prefix) \o ToLower(name)

\* the tag "  tag  " under the prefix pRe__ gave pre__tag, and a blank tag
\* would have given the name
KeyIsLowerPrefixNameWitness ==
    /\ call.fn = "getKey"
    /\ call.f.HasTag
    /\ call.f.Tag = <<" "," ","t","a","g"," "," ">>
    /\ call.f.Name = <<"n","A","M","e">>
    /\ call.prefix = <<"p","R","e","_","_">>
    /\ result = << <<"p","r","e","_","_","t","a","g">> >>
    /\ getKey(Tagged(<<"n","A","M","e">>, <<" "," "," "," ">>, Scalar("string")), <<"p","R","e","_","_">>) = <<"p","r","e","_","_","n","a","m","e">>

\* C19: the tag of a nested struct field replaces only that struct's own
\* segment of the key: with D tagged dOg and its field F tagged feRdiNaND,
\* D.E is bound from dog__e and D.F from dog__ferdinand, and keys made of the
\* declared names (d__e, d__f, dog__f, d__ferdinand) bind nothing.
NestedTagOwnSegment ==
    (call.fn = "To" /\ result # <<>>
     /\ call.tgt.ref = "ptr" /\ call.tgt.type = "testConfig") =>
        LET seen   == Seen(EmptyMap, call.environ)
            at(k)  == IF k \in DOMAIN seen THEN seen[k].val ELSE <<>>
            r      == result[1]
        IN  /\ ~r.panicked
            /\ r.val[4][1] = BindLeaf(Scalar("bool"), call.tgt.val[4][1], at(<<"d","o","g","_","_","e">>))
            /\ r.val[4][2] = BindLeaf(Scalar("bool"), call.tgt.val[4][2],
                                      at(<<"d","o","g","_","_","f","e","r","d","i","n","a","n","d">>))

\* DoG__E and DoG__FErDINANd bound D.E and D.F to true while D__E and dOg__F
\* said false, and the keys of the declared names on their own bind neither
NestedTagOwnSegmentWitness ==
    /\ call.fn = "To"
    /\ call.tgt.ref = "ptr"
    /\ call.tgt.type = "testConfig"
    /\ call.environ = NestedTagged
    /\ result # <<>>
    /\ result[1].val[4][1] = TRUE
    /\ result[1].val[4][2] = TRUE
    /\ result[1].ret = "nil"
    /\ LET byName == ToTarget(FromEnv(newBuilder, NestedByName), call.tgt).val[4]
       IN  byName[1] = FALSE /\ byName[2] = FALSE

\* the ways to cut a line at an "=" that has no "=" before it: none or one
Cuts(l) == {i \in 1..Len(l) : l[i] = "=" /\ \A j \in 1..(i - 1) : l[j] # "="}

\* the lines of ss, by position, that are kept: cut at the first "=", with
\* something before it and something after it
Entries(ss) ==
    UNION {{[at |-> n, key |-> ToLower(SubSeq(ss[n], 1, i - 1)),
             val |-> SubSeq(ss[n], i + 1, Len(ss[n]))] :
                i \in {c \in Cuts(ss[n]) : 1 < c /\ c < Len(ss[n])}} :
           n \in 1..Len(ss)}

FailureIndexIsFilteredPosition ==
    (call.fn = "To" /\ result # <<>>
     /\ call.tgt.ref = "ptr" /\ call.tgt.type = "testConfig") =>
        LET seen == Seen(EmptyMap, call.environ)
            ff   == result[1].failedFields.elems
        IN  \A n \in {3, 5} :
                LET key      == ToLower(testConfig.Fields[n].Name)
                    v        == IF key \in DOMAIN seen THEN seen[key].val ELSE <<>>
                    starts   == {i \in 1..Len(v) : v[i] # " " /\ (i = 1 \/ v[i - 1] = " ")}
                    stop(i)  == CHOOSE j \in i..Len(v) :
                                    /\ \A k \in i..j : v[k] # " "
                                    /\ (j = Len(v) \/ v[j + 1] = " ")
                    index(i) == Cardinality({h \in starts : h < i})
                    bad      == {i \in starts :
                                    ~convertAndSetValue(Scalar("int"), 0,
                                                        SubSeq(v, i, stop(i))).ok}
                    mine     == {j \in 1..Len(ff) :
                                    Len(ff[j]) > Len(key)
                                    /\ SubSeq(ff[j], 1, Len(key) + 1) = key \o <<"[">>}
                IN  /\ {ff[j] : j \in mine} = {SliceFailure(key, index(i)) : i \in bad}
                    /\ Cardinality(mine) = Cardinality(bad)

\* G = "1   y 2" was reported as g[1] and C = "x y 3" as c[0] and c[1], with
\* [1, 2] and [3] bound
FailureIndexIsFilteredPositionWitness ==
    /\ call.fn = "To"
    /\ call.tgt.ref = "ptr"
    /\ call.tgt.type = "testConfig"
    /\ call.environ = SliceIndexed
    /\ result # <<>>
    /\ result[1].failedFields.elems = << <<"c","[","0","]">>, <<"c","[","1","]">>, <<"g","[","1","]">> >>
    /\ result[1].val[3].elems = <<3>>
    /\ result[1].val[5].elems = <<1, 2>>

\* C22: when the sources are merged before To, the failures are listed in the
\* order they occurred: the failing files in the order of their From calls,
\* then the fields in declaration order, a nested struct's fields in the place
\* of the struct, and the failed tokens of one slice by increasing index.
FailuresInOrder ==
    (call.fn = "From.FromEnv.To" /\ result # <<>>) =>
        LET t          == TypeOf(call.tgt.type)
            cm         == FromEnv(FromFiles(newBuilder, call.files), call.environ).configMap
            ff         == result[1].failedFields.elems
            failing(f) == ~FileSystem[f].readOk \/ FileSystem[f].tooLongAt # 0
            files      == SelectSeq(call.files, failing)
            n          == Len(files)
            tokens(p)  == stringToSlice(Lookup(cm, KeyOf(t, p)), sliceDelim).elems
            labels     ==
                UNION {IF FieldAt(t, p).Type.Kind = "slice"
                       THEN {[path |-> p, index |-> i - 1,
                              text |-> SliceFailure(KeyOf(t, p), i - 1)] :
                                i \in {i \in 1..Len(tokens(p)) :
                                          ~convertAndSetValue(FieldAt(t, p).Type.Elem,
                                               ZeroValue(FieldAt(t, p).Type.Elem),
                                               tokens(p)[i]).ok}}
                       ELSE IF convertAndSetValue(FieldAt(t, p).Type,
                                                  ZeroValue(FieldAt(t, p).Type),
                                                  Lookup(cm, KeyOf(t, p))).ok
                            THEN {}
                            ELSE {[path |-> p, index |-> 0, text |-> KeyOf(t, p)]} :
                       p \in LeafPaths(t)}
            before(a, b) ==
                \/ \E k \in 1..Len(a.path) :
                      /\ k <= Len(b.path)
                      /\ \A h \in 1..(k - 1) : a.path[h] = b.path[h]
                      /\ a.path[k] < b.path[k]
                \/ a.path = b.path /\ a.index < b.index
        IN  /\ Len(ff) = n + Cardinality(labels)
            /\ \A j \in 1..n : ff[j] = FileFailure(files[j])
            /\ \A j \in (n + 1)..Len(ff) : \E a \in labels : a.text = ff[j]
            /\ \A j, k \in (n + 1)..Len(ff) :
                  j < k => \E a, b \in labels :
                              a.text = ff[j] /\ b.text = ff[k] /\ before(a, b)

\* the input of Test_Integration gave exactly file[nonexistfile], g[1], h, m
FailuresInOrderWitness ==
    /\ call.fn = "From.FromEnv.To"
    /\ call.files = << <<"t","e","s","t","e","n","v">>, <<"n","o","n","e","x","i","s","t","f","i","l","e">> >>
    /\ call.environ = << <<"B","=","o","v","e","r","r","i","d","d","e","n">>, <<"C","=">> >>
    /\ call.tgt.type = "testConfig"
    /\ result # <<>>
    /\ result[1].failedFields.elems = << <<"f","i","l","e","[","n","o","n","e","x","i","s","t","f","i","l","e","]">>, <<"g","[","1","]">>, <<"h">>, <<"m">> >>
    /\ result[1].ret = "error"

\* C23: every recorded failure carries its field: what appendFieldError
\* records is a field error with the field's path and type name, what
\* appendSliceError records is a slice error with path, element type and
\* index, and the message of the aggregate names the field; a bare conversion
\* error is never recorded.
FailureCarriesField ==
    (call.fn = "Error.message" /\ result # <<>>
     /\ call.via \in {"appendFieldError", "appendSliceError"}) =>
        LET err == AtoiError(call.s)
            e   == IF call.via = "appendFieldError"
                   THEN appendFieldError(NilError, err, call.name, call.t)
                   ELSE appendSliceError(NilError, err, call.name, call.t, call.index)
            rec == e.fieldErrors[Len(e.fieldErrors)]
        IN  /\ Len(e.fieldErrors) = 1
            /\ rec.kind = (IF call.via = "appendFieldError" THEN "fieldError"
                           ELSE "sliceError")
            /\ rec.name = call.name
            /\ rec.t = call.t
            /\ (call.via = "appendSliceError" => rec.index = call.index)
            /\ IsInfix(call.name, result[1])

\* C24: for any input and any non-empty delimiter stringToSlice returns the
\* pieces between the delimiters, each without its surrounding white space,
\* the empty ones dropped, in order, and nil when the input is empty or white
\* space only; an empty delimiter panics for every input.
TokenizerContract ==
    (call.fn = "stringToSlice" /\ result # <<>>) =>
        LET r == result[1]
        IN  IF call.delim = <<>> THEN r.panicked
            ELSE /\ ~r.panicked
                 /\ r.val.elems = FilterTokens(Split(call.in, call.delim))
                 /\ (\A i \in 1..Len(call.in) : IsSpace(call.in[i])) => r.val.isNil

FrameOfOperations ==
    [][ /\ ToStep => (configMap' = configMap /\ nSources' = nSources)
        /\ MergeStep => (target' = target /\ passed' = passed /\ ret' = ret)
        /\ (MergeStep /\ fileFailures' = fileFailures + 1) =>
              /\ configMap' = configMap
              /\ Len(failedFields'.elems) = Len(failedFields.elems) + 1
      ]_vars

\* C28 as amended: To reads the builder's map and never changes it, From and
\* FromEnv never change a target, and a From whose file fails records one
\* failure for it and merges the lines it did obtain: none, leaving the map
\* exactly as it was, when the file could not be opened; the lines read
\* before the failure when the read or the scanner failed part-way.
FrameOfOperationsMerging ==
    [][ /\ ToStep => (configMap' = configMap /\ nSources' = nSources)
        /\ MergeStep => (target' = target /\ passed' = passed /\ ret' = ret)
        /\ (MergeStep /\ fileFailures' = fileFailures + 1) =>
              \E file \in DOMAIN FileSystem :
                  LET f     == FileSystem[file]
                      lines == IF f.tooLongAt = 0 THEN f.data
                               ELSE SubSeq(f.data, 1, f.tooLongAt - 1)
                      w     == Winners(lines)
                  IN  /\ failedFields'.elems = failedFields.elems \o <<FileFailure(file)>>
                      /\ configMap' = [k \in DOMAIN configMap \cup DOMAIN w |->
                                          IF k \in DOMAIN w THEN w[k].val ELSE configMap[k]]
                      /\ (~f.readOk /\ f.notExist) => configMap' = configMap
      ]_vars

\* after the file of Test_Integration a file whose second line the scanner
\* cannot hold was merged: one failure is recorded, m has the value of its
\* first line and a, set in its third line, still has the value of the
\* first file
FrameOfOperationsMergingWitness ==
    /\ nSources = 2
    /\ nTo = 0
    /\ fileFailures = 1
    /\ failedFields.elems = << <<"f","i","l","e","[","l","o","n","g","l","i","n","e","]">> >>
    /\ Lookup(configMap, <<"m">>) = <<"5">>
    /\ Lookup(configMap, <<"a">>) = <<"1">>
    /\ Lookup(configMap, <<"b">>) = <<"a","b","c">>

\* C29: recorded failures are never cleared: every step of the builder keeps
\* the failures listed so far at the head of the list, and once the list has
\* an entry every To returns an error, also when its own target binds without
\* a failure.
FailuresNeverCleared ==
    [][ /\ Len(failedFields'.elems) >= Len(failedFields.elems)
        /\ SubSeq(failedFields'.elems, 1, Len(failedFields.elems)) = failedFields.elems
        /\ (ToStep /\ failedFields.elems # <<>>) => ret' = "error"
      ]_vars

\* the first To, into a MyConfig, recorded b; the second, into a testConfig
\* whose every value converts, returned an error that still lists b
FailuresNeverClearedWitness ==
    /\ nTo = 2
    /\ fileFailures = 0
    /\ target.type = "testConfig"
    /\ ~SomeValueFails(testConfig, configMap)
    /\ ret = "error"
    /\ failedFields.elems = << <<"b">> >>

\* C30: binding a slice field appends to what the field holds and never
\* replaces or shortens it: after To the field holds what it held, followed
\* by one element per token that converts; so a nil field stays nil when
\* there is no such token, and binding the same struct a second time appends
\* the same elements once more.
SliceBindingAppends ==
    [][ ToStep =>
          LET T == TypeOf(target'.type)
          IN  \A p \in {q \in LeafPaths(T) : FieldAt(T, q).Type.Kind = "slice"} :
                LET elem   == FieldAt(T, p).Type.Elem
                    cur    == ValueAt(passed', p)
                    new    == ValueAt(target'.val, p)
                    tokens == stringToSlice(Lookup(configMap, KeyOf(T, p)), sliceDelim).elems
                    good   == {i \in 1..Len(tokens) :
                                  convertAndSetValue(elem, ZeroValue(elem), tokens[i]).ok}
                    added  == SubSeq(new.elems, Len(cur.elems) + 1, Len(new.elems))
                IN  /\ Len(new.elems) = Len(cur.elems) + Cardinality(good)
                    /\ SubSeq(new.elems, 1, Len(cur.elems)) = cur.elems
                    /\ new.isNil <=> (cur.isNil /\ good = {})
                    /\ (nTo > 0 /\ target'.type = target.type /\ passed' = target.val) =>
                          added = SubSeq(cur.elems, Len(ValueAt(passed, p).elems) + 1,
                                         Len(cur.elems))
      ]_vars

\* the example program's struct bound twice after From("defaults"): U, from
\* "1   y 2", holds [1, 2, 1, 2], V, whose tokens x and y both fail, and T,
\* which has no value, are nil still
SliceBindingAppendsWitness ==
    /\ nTo = 2
    /\ target.type = "MyConfig"
    /\ passed[17] = [isNil |-> FALSE, elems |-> <<1, 2>>]
    /\ target.val[17] = [isNil |-> FALSE, elems |-> <<1, 2, 1, 2>>]
    /\ Lookup(configMap, <<"v">>) = <<"x"," ","y">>
    /\ target.val[18] = NilSlice
    /\ <<"t">> \notin DOMAIN configMap
    /\ target.val[16] = NilSlice

====
